---- MODULE Spec2Model ----
(***************************************************************************)
(* A model of TinyRaytracerInRust: the transformation stack and its        *)
(* matrices, the scene interpreter's tree walk, the ray debugger's         *)
(* rendered-line consumer with its worker jobs, and the recursive ray      *)
(* evaluation.  Floating-point numbers are modelled as exact rationals     *)
(* <<numerator, denominator>> in lowest terms with a positive denominator. *)
(***************************************************************************)
EXTENDS Integers, Sequences, FiniteSets, TLC

VARIABLES
    tstack,     \* TransformationStack.stack (transformation.rs:8)
    tfailed,    \* a pop_transformation call hit the expect() and panicked
    frames,     \* SceneContext.stack: the frames of local variables
    globals,    \* SceneContext.globals
    functions,  \* SceneContext.functions: the arity of each defined function
    objects,    \* RayTracer.objects
    ctl,        \* the open CallFunction / Transformation statements of the tree walk
    unwinding,  \* a panic is unwinding the tree walk
    last,       \* history: the kind of the tree-walk step taken last
    frame_contexts, \* DebuggerContext.frames: size, loaded scene and surfaces
    current_frame,  \* DebuggerContext.current_frame
    animating,      \* DebuggerContext.animating
    raytrace_ortho_views,   \* DebuggerContext.raytrace_ortho_views
    jobs,       \* the closures handed to the thread pool and not yet finished
    channel,    \* the RenderedLine messages sent and not yet received
    attached,   \* the receiver's handler is still attached to the main loop
    clicks,     \* the number of GUI events handled so far
    outcome,    \* history: what the handler did with the message received last
    pending,    \* the lines of one render that have not yet arrived
    rstack,     \* the get_ray_color invocations under way, innermost last
    material,   \* the material of the scene's objects
    pixel,      \* history: the get_pixel call made last and its result
    call,       \* history: the library call made last, its arguments and its result
    sampling    \* the anti_alias_line_vec call under way: its arguments and locals

stackVars == <<tstack, tfailed>>

sceneVars == <<frames, globals, functions, objects, ctl, unwinding, last>>

guiVars == <<frame_contexts, current_frame, animating, raytrace_ortho_views,
             jobs, channel, attached, clicks, outcome, pending>>

\* the variables the scene interpreter leaves alone
rayVars == <<rstack, material>>

notScene == <<guiVars, rayVars, pixel, call, sampling>>

\* the variables the ray debugger leaves alone
notGui == <<stackVars, sceneVars, rayVars, pixel, call, sampling>>

\* the variables get_ray_color leaves alone
notRay == <<stackVars, sceneVars, guiVars, pixel, call, sampling>>

\* the variables get_pixel leaves alone
notPixel == <<stackVars, sceneVars, guiVars, rayVars, call, sampling>>

\* the variables a library call leaves alone
notCall == <<stackVars, sceneVars, guiVars, rayVars, pixel, sampling>>

\* the variables anti_alias_line_vec leaves alone
notSampling == <<stackVars, sceneVars, guiVars, rayVars, pixel, call>>

vars == <<stackVars, sceneVars, guiVars, rayVars, pixel, call, sampling>>

\* no library call made
NoCall == [fn |-> "none"]

CallIdle == call = NoCall

\* no line being anti-aliased
SamplingIdle == sampling = [pc |-> "idle"]

-----------------------------------------------------------------------------
(* f64 arithmetic, as exact rationals *)

Abs(n) == IF n < 0 THEN -n ELSE n

RECURSIVE Gcd(_, _)
Gcd(a, b) == IF b = 0 THEN a ELSE Gcd(b, a % b)

\* the rational n/d (d # 0) in lowest terms with a positive denominator
Frac(n, d) ==
    LET g == Gcd(Abs(n), Abs(d))
        s == IF d < 0 THEN -1 ELSE 1
    IN  <<(s * n) \div g, (s * d) \div g>>

R(n) == <<n, 1>>

RAdd(a, b) == Frac(a[1] * b[2] + b[1] * a[2], a[2] * b[2])
RNeg(a)    == <<-a[1], a[2]>>
RSub(a, b) == RAdd(a, RNeg(b))
RMul(a, b) == Frac(a[1] * b[1], a[2] * b[2])
RInv(a)    == Frac(a[2], a[1])
RLt(a, b)  == a[1] * b[2] < b[1] * a[2]
RLe(a, b)  == a[1] * b[2] <= b[1] * a[2]
RAbs(a)    == <<Abs(a[1]), a[2]>>

\* the f64 values that are no rationals: comparisons with NaN are false, and
\* the infinities compare as the rationals' ends (arithmetic is not defined on them)
NaN == <<0, 0>>
PlusInfinity == <<1, 0>>
MinusInfinity == <<-1, 0>>

\* math.rs:2, EPSILON = 10e-7
EPSILON == <<1, 1000000>>

-----------------------------------------------------------------------------
(* vector.rs *)

Vector(x, y, z) == <<x, y, z>>

VAdd(a, b) == <<RAdd(a[1], b[1]), RAdd(a[2], b[2]), RAdd(a[3], b[3])>>
VSub(a, b) == <<RSub(a[1], b[1]), RSub(a[2], b[2]), RSub(a[3], b[3])>>
VDot(a, b) == RAdd(RAdd(RMul(a[1], b[1]), RMul(a[2], b[2])), RMul(a[3], b[3]))
VScale(a, k) == <<RMul(a[1], k), RMul(a[2], k), RMul(a[3], k)>>
VNeg(a) == <<RNeg(a[1]), RNeg(a[2]), RNeg(a[3])>>

-----------------------------------------------------------------------------
(* transformation.rs: 4x4 matrices and MatrixTransformation *)

\* cos and sin of an angle given in quarter turns (angle = k * PI / 2)
cos(k) == CASE k % 4 = 0 -> R(1) [] k % 4 = 1 -> R(0)
            [] k % 4 = 2 -> R(-1) [] OTHER -> R(0)
sin(k) == CASE k % 4 = 0 -> R(0) [] k % 4 = 1 -> R(1)
            [] k % 4 = 2 -> R(0) [] OTHER -> R(-1)

multiply_matrices(matrix1, matrix2) ==
    [i \in 1..4 |-> [j \in 1..4 |->
        RAdd(RAdd(RAdd(RMul(matrix1[i][1], matrix2[1][j]),
                       RMul(matrix1[i][2], matrix2[2][j])),
                  RMul(matrix1[i][3], matrix2[3][j])),
             RMul(matrix1[i][4], matrix2[4][j]))]]

\* the free function transform_vector(vector, matrix)
transform_vector_by(vector, matrix) ==
    LET row(i) == RAdd(RAdd(RAdd(RMul(matrix[i][1], vector[1]),
                                 RMul(matrix[i][2], vector[2])),
                            RMul(matrix[i][3], vector[3])),
                       matrix[i][4])
    IN  Vector(row(1), row(2), row(3))

MatrixTransformation(matrix, inverse_matrix) ==
    [matrix |-> matrix, inverse_matrix |-> inverse_matrix]

transform_vector(t, vector) == transform_vector_by(vector, t.matrix)

reverse_transform_vector(t, vector) == transform_vector_by(vector, t.inverse_matrix)

transform_direction_vector(t, vector) ==
    VSub(transform_vector_by(vector, t.matrix),
         transform_vector_by(Vector(R(0), R(0), R(0)), t.matrix))

reverse_transform_direction_vector(t, vector) ==
    VSub(transform_vector_by(vector, t.inverse_matrix),
         transform_vector_by(Vector(R(0), R(0), R(0)), t.inverse_matrix))

Row(a, b, c, d) == <<a, b, c, d>>

create_identity_matrix ==
    LET matrix == << Row(R(1), R(0), R(0), R(0)),
                     Row(R(0), R(1), R(0), R(0)),
                     Row(R(0), R(0), R(1), R(0)),
                     Row(R(0), R(0), R(0), R(1)) >>
    IN  MatrixTransformation(matrix, matrix)

x_rotation_matrix(angle) ==
    LET csa == cos(angle)
        sna == sin(angle)
    IN  << Row(R(1), R(0), R(0), R(0)),
           Row(R(0), csa, RNeg(sna), R(0)),
           Row(R(0), sna, csa, R(0)),
           Row(R(0), R(0), R(0), R(1)) >>

y_rotation_matrix(angle) ==
    LET csa == cos(angle)
        sna == sin(angle)
    IN  << Row(csa, R(0), RNeg(sna), R(0)),
           Row(R(0), R(1), R(0), R(0)),
           Row(sna, R(0), csa, R(0)),
           Row(R(0), R(0), R(0), R(1)) >>

z_rotation_matrix(angle) ==
    LET csa == cos(angle)
        sna == sin(angle)
    IN  << Row(csa, RNeg(sna), R(0), R(0)),
           Row(sna, csa, R(0), R(0)),
           Row(R(0), R(0), R(1), R(0)),
           Row(R(0), R(0), R(0), R(1)) >>

create_rotation_matrix(x, y, z) ==
    LET matrix_1 == x_rotation_matrix(x)
        inverse_matrix_1 == x_rotation_matrix(-x)
        matrix_2 == y_rotation_matrix(y)
        inverse_matrix_2 == y_rotation_matrix(-y)
        matrix_3 == z_rotation_matrix(z)
        inverse_matrix_3 == z_rotation_matrix(-z)
        final_matrix ==
            multiply_matrices(multiply_matrices(matrix_1, matrix_2), matrix_3)
        final_inverse_matrix ==
            multiply_matrices(multiply_matrices(inverse_matrix_1, inverse_matrix_2),
                              inverse_matrix_3)
    IN  MatrixTransformation(final_matrix, final_inverse_matrix)

create_translation_matrix(x, y, z) ==
    MatrixTransformation(
        << Row(R(1), R(0), R(0), x),
           Row(R(0), R(1), R(0), y),
           Row(R(0), R(0), R(1), z),
           Row(R(0), R(0), R(0), R(1)) >>,
        << Row(R(1), R(0), R(0), RNeg(x)),
           Row(R(0), R(1), R(0), RNeg(y)),
           Row(R(0), R(0), R(1), RNeg(z)),
           Row(R(0), R(0), R(0), R(1)) >>)

create_scaling_matrix(x, y, z) ==
    MatrixTransformation(
        << Row(x, R(0), R(0), R(0)),
           Row(R(0), y, R(0), R(0)),
           Row(R(0), R(0), z, R(0)),
           Row(R(0), R(0), R(0), R(1)) >>,
        << Row(RInv(x), R(0), R(0), R(0)),
           Row(R(0), RInv(y), R(0), R(0)),
           Row(R(0), R(0), RInv(z), R(0)),
           Row(R(0), R(0), R(0), R(1)) >>)

\* self.compose_with(other)
compose_with(self, other) ==
    MatrixTransformation(multiply_matrices(self.matrix, other.matrix),
                         multiply_matrices(self.inverse_matrix, other.inverse_matrix))

-----------------------------------------------------------------------------
(* transformation.rs: TransformationStack *)

new_with_identity == <<create_identity_matrix>>

\* the stack after push_transformation(transformation)
push_transformation(stack, transformation) ==
    Append(stack,
           IF Len(stack) > 0
           THEN compose_with(transformation, stack[Len(stack)])
           ELSE transformation)

\* the stack after a pop_transformation that found an element
pop_transformation(stack) == SubSeq(stack, 1, Len(stack) - 1)

\* get_transformation().expect(...): the top of a non-empty stack
get_current_transformation(stack) == stack[Len(stack)]

-----------------------------------------------------------------------------
(* sceneparser: values, shapes and the SceneContext *)

Ids == {"a"}

FnIds == {"f"}

\* the parameter lists a function statement may declare
ParamLists == {<<>>, <<"a">>}

ShapeKinds == {"sphere"}

NoShape == [kind |-> "none", transformation |-> create_identity_matrix,
            built_under |-> create_identity_matrix]

\* value.rs: Value, with a marker for an identifier that is not bound
Unset == [type |-> "unset", shape |-> NoShape]
Number == [type |-> "number", shape |-> NoShape]
Object(shape) == [type |-> "object", shape |-> shape]

NoFrame == [id \in Ids |-> Unset]

\* the expressions draw and assignment are given
Exprs == {[e |-> "number", kind |-> "none", id |-> "a"]}
            \cup {[e |-> "object", kind |-> k, id |-> "a"] : k \in ShapeKinds}
            \cup {[e |-> "reference", kind |-> "none", id |-> i] : i \in Ids}

evaluate_object_bottom(kind, stack) ==
    [kind |-> kind,
     transformation |-> stack[1],
     built_under |-> stack[Len(stack)]]

\* AstExpression::evaluate for Object: the Shape keeps a clone of the
\* transformation on top of the stack; built_under is a history field that
\* records the top of the stack when the constructor was evaluated
evaluate_object(kind, stack) ==
    [kind |-> kind,
     transformation |-> get_current_transformation(stack),
     built_under |-> stack[Len(stack)]]

\* context.locals(): the top frame, or the globals when no call is open
locals(stack, globs) == IF Len(stack) > 0 THEN stack[Len(stack)] ELSE globs

\* AstExpression::evaluate; ok = FALSE where the code panics
evaluate(expr, stack, globs, transformations) ==
    CASE expr.e = "number" -> [ok |-> TRUE, value |-> Number]
      [] expr.e = "object" ->
            [ok |-> TRUE,
             value |-> Object(evaluate_object(expr.kind, transformations))]
      [] OTHER ->
            IF locals(stack, globs)[expr.id].type # "unset"
            THEN [ok |-> TRUE, value |-> locals(stack, globs)[expr.id]]
            ELSE IF globs[expr.id].type # "unset"
            THEN [ok |-> TRUE, value |-> globs[expr.id]]
            ELSE [ok |-> FALSE, value |-> Unset]

\* shape.rs: Shape::to_rt_object; the history field is carried along
to_rt_object(shape) ==
    [kind |-> shape.kind, transformation |-> shape.transformation,
     built_under |-> shape.built_under]

\* context.rs: enter_call pushes an empty frame
enter_call(stack) == Append(stack, NoFrame)

call_drop_nothing(stack) == stack

\* context.rs: Drop for Call pops the frame
call_drop(stack) == SubSeq(stack, 1, Len(stack) - 1)

\* ast_node.rs: Function::call binds the parameters in the new frame
bind_parameters(stack, param_list) ==
    [stack EXCEPT ![Len(stack)] =
        [id \in Ids |-> IF \E i \in 1..Len(param_list) : param_list[i] = id
                        THEN Number ELSE @[id]]]

\* the transformation statements of a scene: kind and evaluated x, y, z
Blocks ==
    {[transformation |-> "Translate", x |-> R(1), y |-> R(0), z |-> R(0)],
     [transformation |-> "Rotate", x |-> R(0), y |-> R(0), z |-> R(1)],
     [transformation |-> "Scale", x |-> R(2), y |-> R(1), z |-> R(1)]}

\* the match on the Transformation kind; a Rotate angle is in quarter turns
matrix_transformation(b) ==
    CASE b.transformation = "Translate" -> create_translation_matrix(b.x, b.y, b.z)
      [] b.transformation = "Rotate" ->
            create_rotation_matrix(b.x[1], b.y[1], b.z[1])
      [] OTHER -> create_scaling_matrix(b.x, b.y, b.z)

\* deepest nesting of open calls and transformation blocks explored
MaxNest == 2

\* most objects drawn
MaxObjects == 1

\* the interpreter before the first statement of a scene
SceneStart ==
    /\ frames = <<>>
    /\ globals = NoFrame
    /\ functions = [f \in FnIds |-> <<"undefined">>]
    /\ objects = <<>>
    /\ ctl = <<>>
    /\ unwinding = FALSE
    /\ last = "start"

SceneIdle == SceneStart

\* a panic!, expect or failed assert: the tree walk starts to unwind
Panic ==
    /\ unwinding' = TRUE
    /\ last' = "panic"

\* AstStatement::Assignment
Assignment(local, id, expr) ==
    /\ ~unwinding
    /\ LET r == evaluate(expr, frames, globals, tstack) IN
       IF ~r.ok
       THEN Panic /\ UNCHANGED <<frames, globals>>
       ELSE /\ IF local /\ Len(frames) > 0
               THEN /\ frames' = [frames EXCEPT ![Len(frames)][id] = r.value]
                    /\ UNCHANGED globals
               ELSE /\ globals' = [globals EXCEPT ![id] = r.value]
                    /\ UNCHANGED frames
            /\ last' = "statement"
            /\ UNCHANGED unwinding
    /\ UNCHANGED <<notScene, stackVars, functions, objects, ctl>>

\* AstStatement::Function
DefineFunction(f, param_list) ==
    /\ ~unwinding
    /\ functions' = [functions EXCEPT ![f] = param_list]
    /\ last' = "statement"
    /\ UNCHANGED <<notScene, stackVars, frames, globals, objects, ctl, unwinding>>

\* AstStatement::CallFunction with nargs evaluated arguments, up to the point
\* where the body starts: enter_call, then Function::call's arity assert and
\* parameter binding
CallFunction(f, nargs) ==
    /\ ~unwinding
    /\ Len(ctl) < MaxNest
    /\ IF functions[f] = <<"undefined">>
       THEN Panic /\ UNCHANGED <<frames, ctl>>
       ELSE /\ ctl' = Append(ctl, [kind |-> "call", frames |-> frames,
                                   tstack |-> tstack])
            /\ IF Len(functions[f]) # nargs
               THEN /\ frames' = enter_call(frames)
                    /\ Panic
               ELSE /\ frames' = bind_parameters(enter_call(frames), functions[f])
                    /\ last' = "statement"
                    /\ UNCHANGED unwinding
    /\ UNCHANGED <<notScene, stackVars, globals, functions, objects>>

\* the function body is done: the Call guard is dropped
ReturnFromCall ==
    /\ ~unwinding
    /\ ctl # <<>>
    /\ ctl[Len(ctl)].kind = "call"
    /\ frames' = call_drop(frames)
    /\ last' = "return"
    /\ ctl' = SubSeq(ctl, 1, Len(ctl) - 1)
    /\ UNCHANGED <<notScene, stackVars, globals, functions, objects, unwinding>>

\* AstStatement::Draw with one parameter
Draw(expr) ==
    /\ ~unwinding
    /\ Len(objects) < MaxObjects
    /\ LET r == evaluate(expr, frames, globals, tstack) IN
       IF r.ok /\ r.value.type = "object"
       THEN /\ objects' = Append(objects, to_rt_object(r.value.shape))
            /\ last' = "draw"
            /\ UNCHANGED unwinding
       ELSE Panic /\ UNCHANGED objects
    /\ UNCHANGED <<notScene, stackVars, frames, globals, functions, ctl>>

\* AstStatement::Transformation up to the nested statement
EnterTransformation(b) ==
    /\ ~unwinding
    /\ Len(ctl) < MaxNest
    /\ tstack' = push_transformation(tstack, matrix_transformation(b))
    /\ ctl' = Append(ctl, [kind |-> "block", frames |-> frames, tstack |-> tstack])
    /\ last' = "statement"
    /\ UNCHANGED <<notScene, tfailed, frames, globals, functions, objects, unwinding>>

\* AstStatement::Transformation after the nested statement returned
ExitTransformation ==
    /\ ~unwinding
    /\ ctl # <<>>
    /\ ctl[Len(ctl)].kind = "block"
    /\ tstack' = pop_transformation(tstack)
    /\ last' = "end_transformation"
    /\ ctl' = SubSeq(ctl, 1, Len(ctl) - 1)
    /\ UNCHANGED <<notScene, tfailed, frames, globals, functions, objects, unwinding>>

\* the panic leaves the innermost open statement: a Call guard is dropped,
\* a Transformation statement has nothing that runs on unwinding
Unwind ==
    /\ unwinding
    /\ ctl # <<>>
    /\ IF ctl[Len(ctl)].kind = "call"
       THEN /\ frames' = call_drop(frames)
            /\ last' = "unwind_call"
       ELSE /\ UNCHANGED frames
            /\ last' = "unwind_transformation"
    /\ ctl' = SubSeq(ctl, 1, Len(ctl) - 1)
    /\ UNCHANGED <<notScene, stackVars, globals, functions, objects, unwinding>>

-----------------------------------------------------------------------------
(* raydebugger: the frames, the worker jobs and the rendered-line consumer *)

\* frames kept by the DebuggerContext (MAX_FRAMES in the program)
NFrames == 2

FrameNumbers == 0 .. NFrames - 1

\* the drawing area's initial width and height
InitWidth == 1

InitHeight == 2

\* the sizes the drawing area is given by the window
Sizes == {<<InitWidth, InitHeight>>, <<InitWidth, InitHeight - 1>>}

\* scene loads per frame explored
MaxRenders == 1

\* clicks and other GUI events explored
MaxClicks == 4

\* jobs in the pool at one time
MaxJobs == 4

\* worker threads of the pool (the number of CPUs in the program): the
\* oldest NWorkers unfinished jobs are the ones running
NWorkers == 2

\* messages in the channel at one time
MaxInFlight == 1

OrthoAreas == {"TopView", "FrontView", "SideView"}

DrawingArea == {"MainView"} \cup OrthoAreas

\* the content of one row of a surface: as created, whitened by apply_line,
\* or a line computed from the scene load `render`
Blank == [c |-> "blank", render |-> 0, anti_aliased |-> FALSE]
White == [c |-> "white", render |-> 0, anti_aliased |-> FALSE]
Line(render, anti_aliased) ==
    [c |-> "line", render |-> render, anti_aliased |-> anti_aliased]

Surface(height) == [y \in 0 .. height - 1 |-> Blank]

\* FrameContext::new; render stands for the identity of the RayTracer the
\* frame's DebugWindow holds and counts the scene loads of the frame
FrameContext(size, render) ==
    [size |-> size, render |-> render,
     MainView |-> Surface(size[2]), TopView |-> Surface(size[2]),
     FrontView |-> Surface(size[2]), SideView |-> Surface(size[2]),
     edge_pixels |-> [y \in 0 .. size[2] - 1 |-> FALSE]]

\* the closure of create_rendering_thread / create_anti_aliasing_thread: a
\* clone of the DebugWindow (scene and size), the lines still to send
Job(frame, area, fc, anti_aliased) ==
    [frame |-> frame, area |-> area, render |-> fc.render, size |-> fc.size,
     anti_aliased |-> anti_aliased, next |-> 0,
     lines |-> IF anti_aliased THEN fc.size[2] - 1 ELSE fc.size[2]]

RenderedLine(job) ==
    [frame |-> job.frame, area |-> job.area, line |-> job.next,
     rendered_line |-> Line(job.render, job.anti_aliased),
     anti_aliased |-> job.anti_aliased, size |-> job.size]

\* with_shuffled_frames: every frame when animating, else the current one
shuffled_frames == IF animating THEN FrameNumbers ELSE {current_frame}

\* render_frame's jobs for one frame
render_frame_jobs(f, fc, ortho) ==
    (IF ortho
     THEN <<Job(f, "TopView", fc, FALSE), Job(f, "FrontView", fc, FALSE),
            Job(f, "SideView", fc, FALSE)>>
     ELSE <<>>) \o <<Job(f, "MainView", fc, FALSE)>>

\* render_ortho_frame's jobs for one frame
render_ortho_frame_jobs(f, fc) ==
    <<Job(f, "TopView", fc, FALSE), Job(f, "FrontView", fc, FALSE),
      Job(f, "SideView", fc, FALSE)>>

\* anti_alias_frame's job for one frame
anti_alias_frame_jobs(f, fc) == <<Job(f, "MainView", fc, TRUE)>>

\* the frame numbers of a set in ascending order
RECURSIVE InOrder(_)
InOrder(fs) ==
    IF fs = {} THEN <<>>
    ELSE LET f == CHOOSE x \in fs : \A z \in fs : x <= z
         IN  <<f>> \o InOrder(fs \ {f})

\* DebugWindow::apply_line on a surface of the given height
apply_line(y, rendered_line, pixels, height) ==
    [row \in DOMAIN pixels |->
        IF row = y + 1 /\ y + 1 < height THEN White
        ELSE IF row = y THEN rendered_line
        ELSE pixels[row]]

\* FrameContext::set_line_anti_aliased
set_line_anti_aliased(y, anti_aliased, edge_pixels) ==
    IF anti_aliased
    THEN [row \in DOMAIN edge_pixels |-> IF row = y THEN FALSE ELSE edge_pixels[row]]
    ELSE edge_pixels

size_differs_in_width(frame, size) == frame.size[1] # size[1]

\* the handler's test (frame.width, frame.height) != size
size_differs(frame, size) == frame.size # size

\* the handler's match on the area, for a line of the frame's size
handle_line(frame, m) ==
    IF m.area = "MainView"
    THEN [frame EXCEPT
            !.edge_pixels = set_line_anti_aliased(m.line, m.anti_aliased, @),
            !.MainView = apply_line(m.line, m.rendered_line, @, frame.size[2])]
    ELSE [frame EXCEPT
            ![m.area] = apply_line(m.line, m.rendered_line, @, frame.size[2])]

\* the ray debugger when the main loop starts: MAX_FRAMES frames of the
\* initial size and the startup job for the main view of frame 0
GuiStart ==
    /\ frame_contexts = [f \in FrameNumbers |-> FrameContext(<<InitWidth, InitHeight>>, 0)]
    /\ current_frame = 0
    /\ animating = FALSE
    /\ raytrace_ortho_views = FALSE
    /\ jobs = <<Job(0, "MainView", FrameContext(<<InitWidth, InitHeight>>, 0), FALSE)>>
    /\ channel = <<>>
    /\ attached = TRUE
    /\ clicks = 0
    /\ outcome = "none"
    /\ pending = {}

\* the ray debugger not running
GuiIdle ==
    /\ frame_contexts = [f \in FrameNumbers |-> FrameContext(<<InitWidth, InitHeight>>, 0)]
    /\ current_frame = 0
    /\ animating = FALSE
    /\ raytrace_ortho_views = FALSE
    /\ jobs = <<>>
    /\ channel = <<>>
    /\ attached = TRUE
    /\ clicks = 0
    /\ outcome = "none"
    /\ pending = {}

\* the concatenation of one sequence of jobs per frame, in the given order
RECURSIVE Concat(_, _)
Concat(order, jobs_of) ==
    IF order = <<>> THEN <<>>
    ELSE jobs_of[Head(order)] \o Concat(Tail(order), jobs_of)

\* render_button: resize the selected frames to the drawing area, then
\* render_frame for each (reload_ray_tracer and the rendering jobs)
RenderClicked(size) ==
    LET selected == shuffled_frames
        resized == [f \in FrameNumbers |->
                      IF f \in selected
                      THEN [(IF size # frame_contexts[f].size
                             THEN FrameContext(size, frame_contexts[f].render)
                             ELSE frame_contexts[f])
                            EXCEPT !.render = @ + 1]
                      ELSE frame_contexts[f]]
        new_jobs == Concat(InOrder(selected),
                           [f \in FrameNumbers |->
                              render_frame_jobs(f, resized[f], raytrace_ortho_views)])
    IN  /\ \A f \in selected : frame_contexts[f].render < MaxRenders
        /\ Len(jobs) + Len(new_jobs) <= MaxJobs
        /\ frame_contexts' = resized
        /\ jobs' = jobs \o new_jobs
        /\ clicks < MaxClicks
        /\ clicks' = clicks + 1
        /\ UNCHANGED <<notGui, current_frame, animating, raytrace_ortho_views,
                       channel, attached, outcome, pending>>

\* raytrace_ortho_views_button
OrthoViewsClicked(active) ==
    LET new_jobs == IF active
                    THEN Concat(InOrder(shuffled_frames),
                                [f \in FrameNumbers |->
                                   render_ortho_frame_jobs(f, frame_contexts[f])])
                    ELSE <<>>
    IN  /\ active # raytrace_ortho_views
        /\ Len(jobs) + Len(new_jobs) <= MaxJobs
        /\ raytrace_ortho_views' = active
        /\ jobs' = jobs \o new_jobs
        /\ clicks < MaxClicks
        /\ clicks' = clicks + 1
        /\ UNCHANGED <<notGui, frame_contexts, current_frame, animating,
                       channel, attached, outcome, pending>>

\* anti_alias_button
AntiAliasClicked ==
    LET new_jobs == Concat(InOrder(shuffled_frames),
                           [f \in FrameNumbers |->
                              anti_alias_frame_jobs(f, frame_contexts[f])])
    IN  /\ Len(jobs) + Len(new_jobs) <= MaxJobs
        /\ jobs' = jobs \o new_jobs
        /\ clicks < MaxClicks
        /\ clicks' = clicks + 1
        /\ UNCHANGED <<notGui, frame_contexts, current_frame, animating,
                       raytrace_ortho_views, channel, attached, outcome, pending>>

\* animate_button
AnimateClicked(active) ==
    /\ active # animating
    /\ animating' = active
    /\ clicks < MaxClicks
    /\ clicks' = clicks + 1
    /\ UNCHANGED <<notGui, frame_contexts, current_frame, raytrace_ortho_views,
                   jobs, channel, attached, outcome, pending>>

\* frame_spin_button, by the user or by the animation timer
FrameChanged(f) ==
    /\ f # current_frame
    /\ current_frame' = f
    /\ clicks < MaxClicks
    /\ clicks' = clicks + 1
    /\ UNCHANGED <<notGui, frame_contexts, animating, raytrace_ortho_views,
                   jobs, channel, attached, outcome, pending>>

\* show_anti_alias_edges_button: check_anti_aliasing clears the edge pixels
\* and, when shown, marks the rows where mark_edge_pixels finds an edge
ShowEdgesClicked(show, marked) ==
    /\ frame_contexts' =
         [f \in FrameNumbers |->
            IF f \in shuffled_frames
            THEN [frame_contexts[f] EXCEPT !.edge_pixels =
                    [row \in DOMAIN @ |-> show /\ marked]]
            ELSE frame_contexts[f]]
    /\ frame_contexts' # frame_contexts
    /\ clicks < MaxClicks
    /\ clicks' = clicks + 1
    /\ UNCHANGED <<notGui, current_frame, animating, raytrace_ortho_views,
                   jobs, channel, attached, outcome, pending>>

\* a worker renders the next line of its job and sends it; the job is done
\* after its last line
WorkerSends(i) ==
    /\ i <= NWorkers
    /\ Len(channel) < MaxInFlight
    /\ IF jobs[i].next < jobs[i].lines
       THEN /\ channel' = Append(channel, RenderedLine(jobs[i]))
            /\ jobs' = IF jobs[i].next + 1 < jobs[i].lines
                       THEN [jobs EXCEPT ![i].next = @ + 1]
                       ELSE SubSeq(jobs, 1, i - 1) \o SubSeq(jobs, i + 1, Len(jobs))
       ELSE /\ jobs' = SubSeq(jobs, 1, i - 1) \o SubSeq(jobs, i + 1, Len(jobs))
            /\ UNCHANGED channel
    /\ UNCHANGED <<notGui, clicks, frame_contexts, current_frame, animating,
                   raytrace_ortho_views, attached, outcome, pending>>

\* rendered_line_receiver.attach: the handler, for the next message
Receive ==
    /\ attached
    /\ channel # <<>>
    /\ LET m == Head(channel)
           frame == frame_contexts[m.frame]
       IN  IF size_differs(frame, m.size)
           THEN /\ outcome' = "dropped"
                /\ attached' = TRUE
                /\ UNCHANGED frame_contexts
           ELSE /\ frame_contexts' = [frame_contexts EXCEPT ![m.frame] = handle_line(frame, m)]
                /\ outcome' = "applied"
                /\ attached' = TRUE
    /\ channel' = Tail(channel)
    /\ UNCHANGED <<notGui, clicks, current_frame, animating, raytrace_ortho_views,
                   jobs, pending>>

-----------------------------------------------------------------------------
(* raytracer.rs: the recursion of get_ray_color *)

\* RayTracer::new, max_depth: 10
max_depth == 10

RayType == {"NormalRay", "ReflectionRay", "TransmissionRay"}

\* the transparency and reflectivity a SolidColorMaterial may have
Materials ==
    {[transparency |-> t, reflectivity |-> r] :
        t \in {R(0), Frac(1, 2)}, r \in {R(0), Frac(1, 2)}}

\* an invocation of get_ray_color: its arguments, where it stands, the
\* local that the refraction step leaves for the reflection step, and the
\* calls it has made of the debugger callback (ray_debugger_callback is
\* whether a callback is supplied)
Invocation(depth, ray_type, ray_debugger_callback) ==
    [depth |-> depth, ray_type |-> ray_type,
     ray_debugger_callback |-> ray_debugger_callback, pc |-> "enter",
     hit |-> FALSE, total_internal_reflection |-> FALSE, debugged |-> <<>>]

\* what the callback of RayDebugger::record_rays keeps of one call
RayInfo(depth, intersected, ray_type) ==
    [depth |-> depth, intersected |-> intersected, ray_type |-> ray_type]

debugger_of_hits_only(f, nearest_object) ==
    IF f.ray_debugger_callback = FALSE \/ nearest_object = <<>>
    THEN f
    ELSE [f EXCEPT !.debugged =
            Append(@, RayInfo(f.depth, nearest_object # <<>>, f.ray_type))]

\* if let Some(debugger) = ray_debugger_callback { debugger(depth, ray,
\* distance, object, color, &ray_type) }: distance is INFINITY and object is
\* None exactly when nearest_object is None
debugger(f, nearest_object) ==
    IF f.ray_debugger_callback = FALSE
    THEN f
    ELSE [f EXCEPT !.debugged =
            Append(@, RayInfo(f.depth, nearest_object # <<>>, f.ray_type))]

may_spawn_at_limit(depth) == depth <= max_depth

\* the test depth < self.max_depth of the refraction and the reflection step
may_spawn(depth) == depth < max_depth

unboosted_reflectivity(m, total_internal_reflection) == m.reflectivity

\* the reflectivity used by the reflection step
boosted_reflectivity(m, total_internal_reflection) ==
    IF total_internal_reflection
    THEN RAdd(m.reflectivity, RMul(RSub(R(1), m.reflectivity), m.transparency))
    ELSE m.reflectivity

Top(stack) == stack[Len(stack)]

SetTop(stack, f) == [stack EXCEPT ![Len(stack)] = f]

\* no get_pixel call under way
RayIdle ==
    /\ rstack = <<>>
    /\ material = [transparency |-> R(0), reflectivity |-> R(0)]

\* get_ray_color from its entry to the end of the refraction step: the
\* nearest intersection, the shading, and the refracted ray if one is traced.
\* hit and tir are what the scene's geometry gives for this ray.
TraceRay(hit, tir) ==
    /\ rstack # <<>>
    /\ Top(rstack).pc = "enter"
    /\ LET f == Top(rstack)
           refracts == may_spawn(f.depth) /\ material.transparency # R(0)
       IN  IF ~hit
           THEN rstack' = SetTop(rstack,
                    [debugger(f, <<>>) EXCEPT !.pc = "return"])
           ELSE IF refracts /\ ~tir
           THEN rstack' = Append(
                    SetTop(rstack, [f EXCEPT !.pc = "refraction", !.hit = TRUE]),
                    Invocation(f.depth + 1, "TransmissionRay",
                               f.ray_debugger_callback))
           ELSE rstack' = SetTop(rstack,
                    [f EXCEPT !.pc = "reflect", !.hit = TRUE,
                              !.total_internal_reflection = refracts /\ tir])
    /\ UNCHANGED <<notRay, material>>

\* the reflection step: the reflected ray if one is traced, and if none is,
\* the rest of the invocation up to its return.  inside_out is what the angle
\* between the ray and the normal gives; this step is the one that reads it.
Reflect(inside_out) ==
    /\ rstack # <<>>
    /\ Top(rstack).pc = "reflect"
    /\ LET f == Top(rstack)
           reflectivity == boosted_reflectivity(material, f.total_internal_reflection)
           done == [f EXCEPT !.total_internal_reflection = FALSE]
       IN  IF /\ may_spawn(f.depth)
              /\ reflectivity # R(0)
              /\ (~inside_out \/ f.total_internal_reflection)
           THEN rstack' = Append(SetTop(rstack, [done EXCEPT !.pc = "reflection"]),
                                 Invocation(f.depth + 1, "ReflectionRay",
                                            f.ray_debugger_callback))
           ELSE rstack' = SetTop(rstack,
                    [debugger(done, <<"rt_object">>) EXCEPT !.pc = "return"])
    /\ UNCHANGED <<notRay, material>>

\* the invocation returns its color; the caller goes on after the call: to
\* the reflection step after a refracted ray, to the end of the invocation
\* after a reflected ray
Return ==
    /\ rstack # <<>>
    /\ Top(rstack).pc = "return"
    /\ LET rest == SubSeq(rstack, 1, Len(rstack) - 1)
       IN  IF rest = <<>>
           THEN rstack' = rest
           ELSE IF Top(rest).pc = "refraction"
           THEN rstack' = SetTop(rest, [Top(rest) EXCEPT !.pc = "reflect"])
           ELSE rstack' = SetTop(rest,
                    [debugger(Top(rest), <<"rt_object">>) EXCEPT !.pc = "return"])
    /\ UNCHANGED <<notRay, material>>

-----------------------------------------------------------------------------
(* color.rs, math_shapes.rs, camera.rs: the color of a pixel *)

Color(r, g, b, a) == [r |-> r, g |-> g, b |-> b, a |-> a]

BLACK == Color(R(0), R(0), R(0), R(1))

in_limit(x, min, max) == IF RLt(x, min) THEN min ELSE IF RLt(max, x) THEN max ELSE x

in_range(r, g, b) ==
    Color(in_limit(r, R(0), R(1)), in_limit(g, R(0), R(1)), in_limit(b, R(0), R(1)), R(1))

intensify(c, intensity) ==
    in_range(RMul(c.r, intensity), RMul(c.g, intensity), RMul(c.b, intensity))

color_mul_blue_by_blue(c, rhs) == in_range(RMul(c.r, rhs.r), RMul(c.g, rhs.g), RMul(c.b, rhs.b))

\* Mul for Color
color_mul(c, rhs) == in_range(RMul(c.r, rhs.r), RMul(c.g, rhs.g), RMul(c.b, rhs.g))

\* Add for Color
color_add(c, rhs) == in_range(RAdd(c.r, rhs.r), RAdd(c.g, rhs.g), RAdd(c.b, rhs.g))

\* Vector::cross_product
cross_product(a, b) ==
    Vector(RSub(RMul(a[2], b[3]), RMul(a[3], b[2])),
           RSub(RMul(a[1], b[3]), RMul(a[3], b[1])),
           RSub(RMul(a[1], b[2]), RMul(a[2], b[1])))

\* Vector::normalized, for a vector along one axis
normalized(v) ==
    [i \in 1 .. 3 |-> IF v[i] = R(0) THEN R(0)
                      ELSE IF RLt(v[i], R(0)) THEN R(-1) ELSE R(1)]

Ray(point, direction) == [point |-> point, direction |-> direction]

\* PerspectiveCamera::new with the default look_at, up and right
PerspectiveCamera(width, height, center) ==
    LET direction == normalized(VSub(Vector(R(0), R(0), R(0)), center))
        up == Vector(R(0), R(1), R(0))
    IN  [width |-> width, height |-> height, center |-> center,
         up |-> up, right |-> VNeg(cross_product(direction, up)),
         direction |-> direction, aspect_ratio |-> Frac(width, height)]

\* PerspectiveCamera::create_ray
create_ray(camera, x, y) ==
    LET sx == RMul(RSub(RMul(x, RInv(R(camera.width))), Frac(1, 2)), camera.aspect_ratio)
        sy == RSub(RMul(RSub(RSub(R(camera.height), R(1)), y), RInv(R(camera.height))),
                   Frac(1, 2))
    IN  Ray(camera.center,
            VAdd(VAdd(camera.direction, VScale(camera.right, sx)),
                 VScale(camera.up, sy)))

\* an RTObject with a MathPlane under the identity transformation and a
\* SolidColorMaterial
Plane(a, b, c, d, color, reflectivity, transparency) ==
    [p_n |-> normalized(Vector(a, b, c)), d |-> d, color |-> color,
     reflectivity |-> reflectivity, transparency |-> transparency]

\* MathPlane::intersects: the distances handed to add_intersection
plane_intersects(plane, ray) ==
    LET v_d == VDot(plane.p_n, ray.direction)
    IN  IF v_d # R(0)
        THEN LET t == RMul(RNeg(RAdd(VDot(plane.p_n, ray.point), plane.d)), RInv(v_d))
             IN  IF RLe(R(0), t) THEN {t} ELSE {}
        ELSE {}

\* RayTracer::new_default followed by add_test_objects
test_objects ==
    <<Plane(R(0), R(1), R(0), R(20),
            Color(Frac(1, 2), R(0), Frac(1, 2), R(1)), Frac(1, 5), R(0))>>

default_camera(width, height) ==
    PerspectiveCamera(width, height, Vector(R(0), R(0), R(-100)))

\* the light of add_test_objects: its color
light_color == in_range(Frac(1, 2), Frac(1, 2), Frac(1, 2))

\* what the shadow test and the angle to the light give at a surface point:
\* the product of the occluders' transparencies and the intensity
Lightings ==
    {[transparency |-> t, intensity |-> i] :
        t \in {R(0), R(1)}, i \in {R(0), Frac(1, 2), R(1)}}

\* the intersections get_ray_color accepts: d > EPSILON
Hits(scene, ray) ==
    UNION {{[object |-> i, d |-> d] :
                d \in {t \in plane_intersects(scene[i], ray) : RLt(EPSILON, t)}} :
           i \in 1 .. Len(scene)}

\* the nearest of them; of two at the same distance the earlier object
nearest(hits) ==
    CHOOSE h \in hits :
        \A g \in hits : RLt(h.d, g.d) \/ (h.d = g.d /\ h.object <= g.object)

get_reflected_ray_direction(incident, normal) ==
    VSub(incident, VScale(normal, RMul(R(2), VDot(normal, incident))))

\* RayTracer::get_ray_color for a scene of opaque planes and one light
RECURSIVE get_ray_color(_, _, _, _)
get_ray_color(scene, ray, depth, lighting) ==
    IF Hits(scene, ray) = {} THEN BLACK
    ELSE
    LET hit == nearest(Hits(scene, ray))
        rt_object == scene[hit.object]
        point == VAdd(ray.point, VScale(ray.direction, hit.d))
        c == rt_object.color
        ambient == color_mul(c, intensify(in_range(R(1), R(1), R(1)), Frac(6, 10)))
        lit == IF lighting.transparency = R(0)
               THEN ambient
               ELSE color_add(ambient,
                        color_mul(c, intensify(intensify(light_color, lighting.intensity),
                                               lighting.transparency)))
        \* angle >= PI / 2 exactly when the cosine is not positive
        inside_out == RLe(VDot(VNeg(ray.direction), rt_object.p_n), R(0))
        normal == IF inside_out THEN VNeg(rt_object.p_n) ELSE rt_object.p_n
        reflectivity == rt_object.reflectivity
    IN  IF may_spawn(depth) /\ reflectivity # R(0) /\ ~inside_out
        THEN color_add(
                intensify(lit, RSub(R(1), reflectivity)),
                intensify(get_ray_color(scene,
                                        Ray(point, get_reflected_ray_direction(ray.direction, normal)),
                                        depth + 1, lighting),
                          reflectivity))
        ELSE lit

\* RayTracer::get_pixel on the default scene
get_pixel(width, height, x, y, lighting) ==
    get_ray_color(test_objects, create_ray(default_camera(width, height), x, y),
                  0, lighting)

\* largest image width and height explored
MaxPixelSize == 2

\* the coordinates tried: halves from one pixel before the image to one after
PixelCoords(n) == {Frac(k, 2) : k \in -2 .. 2 * n + 2}

\* the arguments of a get_pixel call that has not been made yet
PixelCall(width, height, x, y, lighting) ==
    [called |-> FALSE, width |-> width, height |-> height, x |-> x, y |-> y,
     lighting |-> lighting, color |-> BLACK]

\* no pixel asked for
PixelIdle ==
    pixel = PixelCall(0, 0, R(0), R(0), [transparency |-> R(0), intensity |-> R(0)])

\* the get_pixel call of the presentation layer
GetPixel ==
    /\ ~pixel.called
    /\ pixel' = [pixel EXCEPT
                    !.called = TRUE,
                    !.color = get_pixel(pixel.width, pixel.height, pixel.x, pixel.y,
                                        pixel.lighting)]
    /\ UNCHANGED notPixel

-----------------------------------------------------------------------------
(* The scene interpreter executing any sequence of statements *)

NextScene ==
    \/ \E local \in BOOLEAN, id \in Ids, expr \in Exprs : Assignment(local, id, expr)
    \/ \E f \in FnIds, p \in ParamLists : DefineFunction(f, p)
    \/ \E f \in FnIds, nargs \in {0, 1} : CallFunction(f, nargs)
    \/ ReturnFromCall
    \/ \E expr \in Exprs : Draw(expr)
    \/ \E b \in Blocks : EnterTransformation(b)
    \/ ExitTransformation
    \/ Unwind

InitScene ==
    /\ tstack = new_with_identity
    /\ tfailed = FALSE
    /\ SceneStart
    /\ GuiIdle
    /\ RayIdle
    /\ PixelIdle
    /\ CallIdle
    /\ SamplingIdle

SpecScene == InitScene /\ [][NextScene]_vars

-----------------------------------------------------------------------------
(* The transformation stack driven by any sequence of push and pop calls *)

\* deepest stack explored
MaxStack == 3

\* largest translation offset and scaling factor tried
MaxCoord == 2

Coords == {R(0), R(1), R(MaxCoord)}

QuarterTurns == {0, 1}

Translations ==
    {create_translation_matrix(x, y, R(0)) : x \in Coords, y \in {R(0), R(1)}}
        \ {create_translation_matrix(R(0), R(0), R(0))}

Rotations ==
    {create_rotation_matrix(x, y, z) : x \in QuarterTurns, y \in QuarterTurns, z \in QuarterTurns}

Scalings ==
    {create_scaling_matrix(R(MaxCoord), R(1), R(1)),
     create_scaling_matrix(R(1), R(-1), R(MaxCoord)),
     create_scaling_matrix(Frac(1, MaxCoord), R(MaxCoord), R(1))}

Transformations == Translations \cup Rotations \cup Scalings

TestVectors ==
    {Vector(R(0), R(0), R(0)), Vector(R(1), R(0), R(0)),
     Vector(R(0), R(1), R(0)), Vector(R(0), R(0), R(1)),
     Vector(R(1), R(2), R(3))}

InitStack ==
    /\ tstack = new_with_identity
    /\ tfailed = FALSE
    /\ SceneIdle
    /\ GuiIdle
    /\ RayIdle
    /\ PixelIdle
    /\ CallIdle
    /\ SamplingIdle

PushTransformation(t) ==
    /\ ~tfailed
    /\ Len(tstack) < MaxStack
    /\ tstack' = push_transformation(tstack, t)
    /\ UNCHANGED <<notScene, tfailed, sceneVars>>

\* pop_transformation: Vec::pop, then expect() panics on None
PopTransformation ==
    /\ ~tfailed
    /\ IF Len(tstack) = 0
       THEN tfailed' = TRUE /\ UNCHANGED tstack
       ELSE tstack' = pop_transformation(tstack) /\ UNCHANGED tfailed
    /\ UNCHANGED <<notScene, sceneVars>>

NextStack ==
    \/ \E t \in Transformations : PushTransformation(t)
    \/ PopTransformation

SpecStack == InitStack /\ [][NextStack]_vars

-----------------------------------------------------------------------------
(* The ray debugger under any interleaving of clicks, workers and the handler *)

\* a line of the render under way reaches the channel, in any order
Arrives(m) ==
    /\ m \in pending
    /\ Len(channel) < MaxInFlight
    /\ channel' = Append(channel, m)
    /\ pending' = pending \ {m}
    /\ UNCHANGED <<notGui, frame_contexts, current_frame, animating,
                   raytrace_ortho_views, jobs, attached, clicks, outcome>>

NextGui ==
    \/ \E size \in Sizes : RenderClicked(size)
    \/ \E active \in BOOLEAN : OrthoViewsClicked(active)
    \/ AntiAliasClicked
    \/ \E active \in BOOLEAN : AnimateClicked(active)
    \/ \E f \in FrameNumbers : FrameChanged(f)
    \/ \E show \in BOOLEAN, marked \in BOOLEAN : ShowEdgesClicked(show, marked)
    \/ \E i \in 1 .. Len(jobs) : WorkerSends(i)
    \/ Receive

InitGui ==
    /\ tstack = new_with_identity
    /\ tfailed = FALSE
    /\ SceneIdle
    /\ GuiStart
    /\ RayIdle
    /\ PixelIdle
    /\ CallIdle
    /\ SamplingIdle

SpecGui == InitGui /\ [][NextGui]_vars

-----------------------------------------------------------------------------
(* The consumer given the lines of one render in any order of arrival *)

\* tallest frame explored
MaxArrivalHeight == 4

ArrivalSizes == {<<InitWidth, h>> : h \in 2 .. MaxArrivalHeight}

\* the messages of one rendering job: one per line of the frame
LinesOf(job) ==
    {RenderedLine([job EXCEPT !.next = y]) : y \in 0 .. job.lines - 1}

InitArrival ==
    /\ tstack = new_with_identity
    /\ tfailed = FALSE
    /\ SceneIdle
    /\ RayIdle
    /\ PixelIdle
    /\ CallIdle
    /\ SamplingIdle
    /\ \E size \in ArrivalSizes, area \in DrawingArea :
          /\ frame_contexts = [f \in FrameNumbers |-> FrameContext(size, 0)]
          /\ pending = LinesOf(Job(0, area, FrameContext(size, 0), FALSE))
    /\ current_frame = 0
    /\ animating = FALSE
    /\ raytrace_ortho_views = FALSE
    /\ jobs = <<>>
    /\ channel = <<>>
    /\ attached = TRUE
    /\ clicks = 0
    /\ outcome = "none"

NextArrival ==
    \/ \E m \in pending : Arrives(m)
    \/ Receive

SpecArrival == InitArrival /\ [][NextArrival]_vars

-----------------------------------------------------------------------------
(* One anti-aliasing pass over a fully rendered frame, nothing else running *)

\* a frame after its render job has sent every line and the handler has
\* applied them all, with the rows marked as edges by check_anti_aliasing
RenderedFrame(size, render, edge_pixels) ==
    [FrameContext(size, render) EXCEPT
        !.MainView = [y \in DOMAIN @ |-> Line(render, FALSE)],
        !.edge_pixels = edge_pixels]

InitPass ==
    /\ tstack = new_with_identity
    /\ tfailed = FALSE
    /\ SceneIdle
    /\ RayIdle
    /\ PixelIdle
    /\ CallIdle
    /\ SamplingIdle
    /\ \E size \in ArrivalSizes, render \in 0 .. MaxRenders :
       \E edge_pixels \in [0 .. size[2] - 1 -> BOOLEAN] :
          /\ frame_contexts =
                [f \in FrameNumbers |-> RenderedFrame(size, render, edge_pixels)]
          /\ \E f \in FrameNumbers :
                /\ current_frame = f
                /\ jobs = anti_alias_frame_jobs(f, frame_contexts[f])
    /\ animating = FALSE
    /\ raytrace_ortho_views = FALSE
    /\ channel = <<>>
    /\ attached = TRUE
    /\ clicks = 0
    /\ outcome = "none"
    /\ pending = {}

NextPass ==
    \/ \E i \in 1 .. Len(jobs) : WorkerSends(i)
    \/ Receive

SpecPass == InitPass /\ [][NextPass]_vars


-----------------------------------------------------------------------------
\* C1: every transformation on the stack (built by translate, rotate, scale
\* and composition) maps transform_vector(v) back to v, within EPSILON per
\* component, for every test vector v.
ApproxEq(a, b) == RLe(RAbs(RSub(a, b)), EPSILON)

RoundTrips(t) ==
    \A v \in TestVectors :
        LET w == reverse_transform_vector(t, transform_vector(t, v))
        IN  \A i \in 1..3 : ApproxEq(w[i], v[i])

C1_InverseLaw == \A i \in 1..Len(tstack) : RoundTrips(tstack[i])

\* C2: the stack always holds at least one element and its bottom is the
\* identity, in every state reached by push and pop calls.
C2_NeverEmpty ==
    /\ Len(tstack) >= 1
    /\ tstack[1] = create_identity_matrix

-----------------------------------------------------------------------------
(* One get_ray_color call at depth 0, for any geometry and material *)

InitRay ==
    /\ tstack = new_with_identity
    /\ tfailed = FALSE
    /\ SceneIdle
    /\ GuiIdle
    /\ PixelIdle
    /\ CallIdle
    /\ SamplingIdle
    /\ \E ray_debugger_callback \in BOOLEAN :
          rstack = <<Invocation(0, "NormalRay", ray_debugger_callback)>>
    /\ material \in Materials

NextRay ==
    \/ \E hit \in BOOLEAN, tir \in BOOLEAN : TraceRay(hit, tir)
    \/ \E inside_out \in BOOLEAN : Reflect(inside_out)
    \/ Return

\* the computation is sequential code: it goes on as long as it can
SpecRay == InitRay /\ [][NextRay]_vars /\ WF_vars(NextRay)

-----------------------------------------------------------------------------
(* get_pixel calls on the default scene *)

InitPixel ==
    /\ tstack = new_with_identity
    /\ tfailed = FALSE
    /\ SceneIdle
    /\ GuiIdle
    /\ RayIdle
    /\ CallIdle
    /\ SamplingIdle
    /\ \E width \in 1 .. MaxPixelSize, height \in 1 .. MaxPixelSize :
          \E x \in PixelCoords(width), y \in PixelCoords(height), lighting \in Lightings :
              pixel = PixelCall(width, height, x, y, lighting)

NextPixel == GetPixel

SpecPixel == InitPixel /\ [][NextPixel]_vars

-----------------------------------------------------------------------------
(* The scene interpreter *)

\* C3 as stated: a draw appends exactly one object, and that object carries
\* the transformation that is on top of the stack when the draw executes,
\* whether the object was constructed inline or taken from a variable.
C3_DrawTimeTransformation ==
    [][last' = "draw" =>
        /\ Len(objects') = Len(objects) + 1
        /\ SubSeq(objects', 1, Len(objects)) = objects
        /\ objects'[Len(objects')].transformation
                = get_current_transformation(tstack)]_vars

\* C3 as the code has it: a draw appends exactly one object, and that object
\* carries the transformation that was on top of the stack when the object's
\* constructor expression was evaluated.
C3_ConstructionTimeTransformation ==
    [][last' = "draw" =>
        /\ Len(objects') = Len(objects) + 1
        /\ SubSeq(objects', 1, Len(objects)) = objects
        /\ objects'[Len(objects')].transformation
                = objects'[Len(objects')].built_under]_vars

\* an object constructed under one transformation, stored in a variable and
\* drawn under another
C3_DrawnFromVariable ==
    /\ last = "draw"
    /\ objects # <<>>
    /\ objects[Len(objects)].built_under # get_current_transformation(tstack)

\* C4: when a call is left, by returning or by a failure unwinding through
\* it (a failure in the body or of the arity check), the scope stack is again
\* the one from immediately before the call; a call of an unknown function
\* fails before any frame is pushed.
C4_FramePopped ==
    [][/\ last' \in {"return", "unwind_call"} => frames' = ctl[Len(ctl)].frames
       /\ ctl' = ctl => Len(frames') = Len(frames)]_vars

\* a failure in a nested call has unwound through the inner call, the outer
\* call is still open
C4_UnwoundNestedCall ==
    /\ last = "unwind_call"
    /\ Len(ctl) = 1
    /\ ctl[1].kind = "call"
    /\ Len(frames) = 1

\* C5: when a translate, rotate or scale block is left, by finishing or by a
\* failure in its nested statement, the transformation stack is again the one
\* from immediately before the block.
C5_TransformationPopped ==
    [][last' \in {"end_transformation", "unwind_transformation"} =>
        tstack' = ctl[Len(ctl)].tstack]_vars

-----------------------------------------------------------------------------
(* The rendered-line consumer *)

\* the step in which the handler takes the next message from the channel
Received == channel # <<>> /\ channel' = Tail(channel)

\* a line computed from a scene load or for a size that the frame has since
\* replaced
Stale(m) ==
    \/ m.rendered_line.render # frame_contexts[m.frame].render
    \/ m.size # frame_contexts[m.frame].size

\* C6: a line that originates from a superseded render of its frame (an
\* earlier render request or scene load, or an earlier size) is dropped on
\* arrival: handling it changes no frame.
C6_StaleLinesDropped ==
    [][Received /\ Stale(Head(channel)) => frame_contexts' = frame_contexts]_vars

\* C7: the handler applies a message to its frame exactly when the message's
\* size tag equals the frame's current size; when the tag differs every
\* surface of every frame (main, top, front, side, edge) is left as it was;
\* in both cases the receiver stays attached.
C7_AppliedIffSizeMatches ==
    [][Received =>
        LET m == Head(channel)
            frame == frame_contexts[m.frame]
        IN  /\ attached'
            /\ IF m.size = frame.size
               THEN /\ frame_contexts'[m.frame][m.area][m.line] = m.rendered_line
                    /\ outcome' = "applied"
               ELSE /\ frame_contexts' = frame_contexts
                    /\ outcome' = "dropped"]_vars

\* a message tagged with another size than its frame's was handled
C7_LineDropped ==
    /\ outcome = "dropped"
    /\ channel = <<>>
    /\ attached

\* C8: once all lines of one render have been applied, in whatever order they
\* arrived, every row of the area's surface holds its rendered line.
C8_OrderIndependent ==
    (pending = {} /\ channel = <<>> /\ outcome = "applied") =>
        \E area \in DrawingArea :
            \A y \in DOMAIN frame_contexts[0][area] :
                frame_contexts[0][area][y] = Line(0, FALSE)

-----------------------------------------------------------------------------
(* The recursion of get_ray_color *)

\* the invocations are nested one level deeper each, none beyond max_depth
DepthBounded ==
    \A i \in 1 .. Len(rstack) :
        rstack[i].depth = i - 1 /\ rstack[i].depth <= max_depth

Rank(pc) ==
    CASE pc = "enter" -> 0 [] pc = "refraction" -> 1 [] pc = "reflect" -> 2
      [] pc = "reflection" -> 3 [] OTHER -> 4

\* a step that starts an invocation starts exactly one, at depth + 1, from
\* an invocation below max_depth: a refraction ray only from an invocation
\* that has spawned nothing yet, a reflection ray only from one that has
\* spawned no reflection ray yet; no invocation ever goes back to a step it
\* has passed
SpawnsOnce ==
    /\ \A i \in 1 .. Len(rstack) :
          i <= Len(rstack') => Rank(rstack'[i].pc) >= Rank(rstack[i].pc)
    /\ Len(rstack') > Len(rstack) =>
          LET parent == Top(rstack)
              child == Top(rstack')
          IN  /\ Len(rstack') = Len(rstack) + 1
              /\ parent.depth < max_depth
              /\ child.depth = parent.depth + 1
              /\ child.pc = "enter"
              /\ \/ /\ child.ray_type = "TransmissionRay"
                    /\ parent.pc = "enter"
                    /\ rstack'[Len(rstack)].pc = "refraction"
                 \/ /\ child.ray_type = "ReflectionRay"
                    /\ parent.pc = "reflect"
                    /\ rstack'[Len(rstack)].pc = "reflection"

\* C9: get_ray_color at depth 0 terminates; every invocation has depth at
\* most max_depth, an invocation at max_depth spawns nothing, and an
\* invocation spawns at most one refraction ray and at most one reflection
\* ray, each at depth + 1.
C9_Terminates ==
    /\ []DepthBounded
    /\ [][SpawnsOnce]_vars
    /\ <>(rstack = <<>>)

\* an invocation at max_depth has hit a reflective and transparent object from
\* outside and returns without having spawned a ray
C9_LeafAtMaxDepth ==
    /\ Len(rstack) = max_depth + 1
    /\ Top(rstack).pc = "return"
    /\ Top(rstack).hit
    /\ material.reflectivity # R(0)
    /\ material.transparency # R(0)

-----------------------------------------------------------------------------
(* get_pixel *)

\* C10: a get_pixel call for a coordinate outside [0, width) x [0, height)
\* returns the background color, black.
C10_OutsideIsBackground ==
    (/\ pixel.called
     /\ \/ RLt(pixel.x, R(0)) \/ RLe(R(pixel.width), pixel.x)
        \/ RLt(pixel.y, R(0)) \/ RLe(R(pixel.height), pixel.y))
        => pixel.color = BLACK

-----------------------------------------------------------------------------
(* math_shapes.rs, csg.rs: the point-membership test of the shapes *)

MathSphere(transformation, center, radius) ==
    [shape |-> "sphere", transformation |-> transformation, center |-> center,
     radius |-> radius]

\* MathPlane::transformed_normal
transformed_normal(normal, transformation) ==
    normalized(transform_direction_vector(transformation, normal))

MathPlane(transformation, a, b, c, d) ==
    [shape |-> "plane", transformation |-> transformation, a |-> a, b |-> b,
     c |-> c, d |-> d,
     normal |-> transformed_normal(normalized(Vector(a, b, c)), transformation)]

\* MathCube::new keeps half of the length it is given, and builds its six
\* bounding planes from that half: p1 at center.z + length, the other five
\* at the center -/+ length / 2
MathCube(transformation, center, length) ==
    LET half == RMul(length, Frac(1, 2))
        t == transformation
        quarter == RMul(half, Frac(1, 2))
    IN  [shape |-> "cube", transformation |-> t, center |-> center, length |-> half,
         p1 |-> MathPlane(t, R(0), R(0), R(1), RNeg(RAdd(center[3], half))),
         p6 |-> MathPlane(t, R(0), R(0), R(-1), RAdd(center[3], RNeg(quarter))),
         p2 |-> MathPlane(t, R(0), R(1), R(0), RNeg(RAdd(center[2], quarter))),
         p5 |-> MathPlane(t, R(0), R(-1), R(0), RAdd(center[2], RNeg(quarter))),
         p3 |-> MathPlane(t, R(1), R(0), R(0), RNeg(RAdd(center[1], quarter))),
         p4 |-> MathPlane(t, R(-1), R(0), R(0), RAdd(center[1], RNeg(quarter)))]

Operator == {"Union", "Intersection", "Difference"}

CSG(transformation, a_obj, b_obj, operator) ==
    [shape |-> "csg", transformation |-> transformation, a_obj |-> a_obj,
     b_obj |-> b_obj, operator |-> operator]

combine_difference_as_intersection(operator, a, b) ==
    CASE operator = "Union" -> a \/ b
      [] operator = "Intersection" -> a /\ b
      [] operator = "Difference" -> a /\ b

\* the match on self.operator in CSG::is_inside
combine(operator, a, b) ==
    CASE operator = "Union" -> a \/ b
      [] operator = "Intersection" -> a /\ b
      [] operator = "Difference" -> a /\ ~b

\* MathShape::is_inside.  The sphere's test (point - center).length() <=
\* radius + EPSILON is taken on the squares: the coordinates and radii used
\* are multiples of 1/2 below 1000, where a squared distance above radius^2
\* exceeds it by 1/4 or more and so the distance exceeds radius + EPSILON.
RECURSIVE is_inside(_, _)
is_inside(s, point) ==
    CASE s.shape = "sphere" ->
            LET p == VSub(reverse_transform_vector(s.transformation, point), s.center)
            IN  /\ RLe(R(0), s.radius)
                /\ RLe(VDot(p, p), RMul(s.radius, s.radius))
      [] s.shape = "cube" ->
            LET p == reverse_transform_vector(s.transformation, point)
            IN  \A i \in 1 .. 3 :
                    /\ RLe(p[i], RAdd(s.center[i], s.length))
                    /\ RLe(RSub(s.center[i], s.length), p[i])
      [] s.shape = "plane" -> FALSE
      [] s.shape = "csg" ->
            combine(s.operator, is_inside(s.a_obj, point), is_inside(s.b_obj, point))

\* how deep the operands of a CSG are themselves CSGs
MaxCsgNest == 1

\* a call shape.is_inside(point)
IsInside ==
    /\ call.fn = "is_inside"
    /\ ~call.done
    /\ call' = [call EXCEPT !.done = TRUE, !.result = is_inside(call.shape, call.point)]
    /\ UNCHANGED notCall

-----------------------------------------------------------------------------
(* antialiaser.rs: adaptive supersampling of one pixel *)

\* Option: None, and Some(v)
None == <<>>

Some(v) == <<v>>

\* 1 << level
RECURSIVE shl1(_)
shl1(level) == IF level = 0 THEN 1 ELSE 2 * shl1(level - 1)

AntiAliaser_of_even_size(threshold, level) ==
    LET threshold_ == IF threshold = None THEN Frac(1, 10) ELSE threshold[1]
        level_ == IF level = None THEN 3 ELSE level[1]
    IN  [threshold |-> threshold_, level |-> level_, size |-> shl1(level_)]

\* AntiAliaser::new
AntiAliaser(threshold, level) ==
    LET threshold_ == IF threshold = None THEN Frac(1, 10) ELSE threshold[1]
        level_ == IF level = None THEN 3 ELSE level[1]
    IN  [threshold |-> threshold_, level |-> level_, size |-> shl1(level_) + 1]

color_distance(color1, color2) ==
    RMul(RAdd(RAdd(RAdd(RAbs(RSub(color1.r, color2.r)), RAbs(RSub(color1.g, color2.g))),
                   RAbs(RSub(color1.b, color2.b))),
              RAbs(RSub(color1.a, color2.a))),
         Frac(1, 4))

pixels_are_different_or_equal(color1, color2, threshold) ==
    RLe(threshold, color_distance(color1, color2))

pixels_are_different(color1, color2, threshold) ==
    RLt(threshold, color_distance(color1, color2))

color_average(color1, color2, color3, color4) ==
    LET avg(f1, f2, f3, f4) == RMul(RAdd(RAdd(RAdd(f1, f2), f3), f4), Frac(1, 4))
    IN  Color(avg(color1.r, color2.r, color3.r, color4.r),
              avg(color1.g, color2.g, color3.g, color4.g),
              avg(color1.b, color2.b, color3.b, color4.b),
              avg(color1.a, color2.a, color3.a, color4.a))

\* RayTracer::get_pixel as the anti-aliaser sees it: the color the scene has
\* at sub-pixel (sub_x, sub_y) of the pixel being refined
oracle_pixel(oracle, sub_x, sub_y) ==
    CASE oracle.kind = "flat" -> oracle.lo
      [] oracle.kind = "vertical" -> IF sub_x < oracle.at THEN oracle.lo ELSE oracle.hi
      [] oracle.kind = "horizontal" -> IF sub_y < oracle.at THEN oracle.lo ELSE oracle.hi

\* the closure sub_renderer: the color cached in sub_pixels for the
\* coordinate, else the scene's color there
sub_renderer(oracle, sub_pixels, sub_x, sub_y) ==
    IF sub_pixels[<<sub_x, sub_y>>] # None
    THEN sub_pixels[<<sub_x, sub_y>>][1]
    ELSE oracle_pixel(oracle, sub_x, sub_y)

\* the test `different` of get_sub_pixel_color
different(color1, color2, color3, color4, threshold) ==
    \/ pixels_are_different(color1, color2, threshold)
    \/ pixels_are_different(color1, color3, threshold)
    \/ pixels_are_different(color1, color4, threshold)

\* AntiAliaser::get_sub_pixel_color.  sub_pixels is the buffer as
\* get_anti_aliased_pixel set it up; the closure's cache makes every later
\* coordinate cost one ray the first time it is asked for, so the result
\* carries the set of coordinates asked for (sampled) instead of the updated
\* buffer.  subdivided records whether this quad went on to its child quads.
RECURSIVE get_sub_pixel_color(_, _, _, _, _, _, _, _)
get_sub_pixel_color(aa, oracle, sub_pixels, x1, y1, x2, y2, level) ==
    LET color1 == sub_renderer(oracle, sub_pixels, x1, y1)
        color2 == sub_renderer(oracle, sub_pixels, x2, y1)
        color3 == sub_renderer(oracle, sub_pixels, x1, y2)
        color4 == sub_renderer(oracle, sub_pixels, x2, y2)
        corners == {<<x1, y1>>, <<x2, y1>>, <<x1, y2>>, <<x2, y2>>}
    IN  IF ~different(color1, color2, color3, color4, aa.threshold) \/ level <= 0
        THEN [color |-> color_average(color1, color2, color3, color4),
              sampled |-> corners, subdivided |-> FALSE]
        ELSE LET mid_x == x1 + (x2 - x1) \div 2
                 mid_y == y1 + (y2 - y1) \div 2
                 merged(q1, q2, q3, q4) ==
                     [color |-> color_average(q1.color, q2.color, q3.color, q4.color),
                      sampled |-> corners \cup q1.sampled \cup q2.sampled
                                          \cup q3.sampled \cup q4.sampled,
                      subdivided |-> TRUE]
             IN  merged(get_sub_pixel_color(aa, oracle, sub_pixels, x1, y1, mid_x, mid_y, level - 1),
                        get_sub_pixel_color(aa, oracle, sub_pixels, mid_x, y1, x2, mid_y, level - 1),
                        get_sub_pixel_color(aa, oracle, sub_pixels, x1, mid_y, mid_x, y2, level - 1),
                        get_sub_pixel_color(aa, oracle, sub_pixels, mid_x, mid_y, x2, y2, level - 1))

\* AntiAliaser::get_anti_aliased_pixel; seeds are the source's colors at
\* (x, y), (x, y + 1), (x + 1, y), (x + 1, y + 1)
get_anti_aliased_pixel(aa, seeds, oracle, ray_counter) ==
    LET far == aa.size - 1
        corners == (<<0, 0>> :> seeds[1]) @@ (<<0, far>> :> seeds[2])
                   @@ (<<far, 0>> :> seeds[3]) @@ (<<far, far>> :> seeds[4])
        sub_pixels == [c \in (0 .. far) \X (0 .. far) |->
                          IF c \in DOMAIN corners THEN Some(corners[c]) ELSE None]
        counted(final) ==
            [color |-> final.color,
             ray_counter |-> ray_counter + Cardinality(final.sampled \ DOMAIN corners),
             subdivided |-> final.subdivided]
    IN  counted(get_sub_pixel_color(aa, oracle, sub_pixels, 0, 0, far, far, aa.level))

\* the deepest subdivision level tried
MaxLevel == 2

\* a call anti_aliaser.get_anti_aliased_pixel(x, y, ..)
GetAntiAliasedPixel ==
    /\ call.fn = "get_anti_aliased_pixel"
    /\ ~call.done
    /\ call' = [call EXCEPT
                   !.done = TRUE,
                   !.result = get_anti_aliased_pixel(
                                  AntiAliaser(Some(call.threshold), Some(call.level)),
                                  call.seeds, call.oracle, call.ray_counter)]
    /\ UNCHANGED notCall

\* a call AntiAliaser::new(ray_tracer, threshold, level)
NewAntiAliaser ==
    /\ call.fn = "AntiAliaser::new"
    /\ ~call.done
    /\ call' = [call EXCEPT !.done = TRUE,
                            !.result = AntiAliaser(call.threshold, call.level)]
    /\ UNCHANGED notCall

-----------------------------------------------------------------------------
(* antialiaser.rs: one line of the image, step by step *)

\* RayTracer::get_pixel(x, y) on the image being anti-aliased: one color, or
\* two colors on the two sides of an edge
traced_color(image, x, y) ==
    CASE image.kind = "flat" -> image.lo
      [] image.kind = "vertical" -> IF RLt(x, image.at) THEN image.lo ELSE image.hi
      [] image.kind = "horizontal" -> IF RLt(y, image.at) THEN image.lo ELSE image.hi
      [] image.kind = "diagonal" ->
            IF RLt(RAdd(x, y), image.at) THEN image.lo ELSE image.hi

\* source.get_pixel_color(x, y): the base image, which render_lines filled
\* from get_pixel(x as f64, y as f64)
get_pixel_color(image, x, y) == traced_color(image, R(x), R(y))

\* AntiAliaser::create_sub_pixel_buffer
create_sub_pixel_buffer(size) ==
    [c \in (0 .. size - 1) \X (0 .. size - 1) |-> None]

clear_matrices_of_nothing(sub_pixels) == sub_pixels

\* AntiAliaser::clear_matrices
clear_matrices(sub_pixels) == [c \in DOMAIN sub_pixels |-> None]

\* the four entries get_anti_aliased_pixel seeds from the source
seeded_corners(size) ==
    {<<0, 0>>, <<0, size - 1>>, <<size - 1, 0>>, <<size - 1, size - 1>>}

\* the image coordinate sub_renderer hands to get_pixel for (sub_x, sub_y)
sample_at(size, x, y, sub_x, sub_y) ==
    <<RAdd(R(x), Frac(sub_x, size)), RAdd(R(y), Frac(sub_y, size))>>

\* an invocation of get_sub_pixel_color: its arguments, the corner colors it
\* has asked for so far, and the colors its child quads have returned
Quad(x1, y1, x2, y2, level) ==
    [x1 |-> x1, y1 |-> y1, x2 |-> x2, y2 |-> y2, level |-> level,
     colors |-> <<>>, subdivided |-> FALSE, children |-> <<>>]

\* the coordinates of color1 .. color4
corner(q, k) ==
    CASE k = 1 -> <<q.x1, q.y1>> [] k = 2 -> <<q.x2, q.y1>>
      [] k = 3 -> <<q.x1, q.y2>> [] k = 4 -> <<q.x2, q.y2>>

\* the four recursive calls of get_sub_pixel_color, in order
child_quad(q, k) ==
    LET mid_x == q.x1 + (q.x2 - q.x1) \div 2
        mid_y == q.y1 + (q.y2 - q.y1) \div 2
    IN  CASE k = 1 -> Quad(q.x1, q.y1, mid_x, mid_y, q.level - 1)
          [] k = 2 -> Quad(mid_x, q.y1, q.x2, mid_y, q.level - 1)
          [] k = 3 -> Quad(q.x1, mid_y, mid_x, q.y2, q.level - 1)
          [] k = 4 -> Quad(mid_x, mid_y, q.x2, q.y2, q.level - 1)

\* an invocation of get_sub_pixel_color returns color: to the invocation
\* that called it, or to anti_alias_line_vec, which pushes it to the line
returned(s, color) ==
    LET rest == SubSeq(s.stack, 1, Len(s.stack) - 1)
    IN  IF rest = <<>>
        THEN [s EXCEPT !.stack = rest, !.line = Append(@, color), !.x = @ + 1]
        ELSE [s EXCEPT !.stack =
                 [rest EXCEPT ![Len(rest)].children = Append(@, color)]]

\* anti_alias_line_vec starts on pixel x: get_anti_aliased_pixel clears the
\* buffer, seeds its corners and calls get_sub_pixel_color on the whole grid
BeginPixel ==
    /\ sampling.pc = "running"
    /\ sampling.stack = <<>>
    /\ sampling.x < sampling.width - 1
    /\ LET far == sampling.anti_aliaser.size - 1
           x == sampling.x
           y == sampling.y
           image == sampling.image
           cleared == clear_matrices(sampling.sub_pixels)
       IN  sampling' =
             [sampling EXCEPT
                !.sub_pixels =
                    [c \in DOMAIN cleared |->
                        CASE c = <<far, far>> -> Some(get_pixel_color(image, x + 1, y + 1))
                          [] c = <<far, 0>> -> Some(get_pixel_color(image, x + 1, y))
                          [] c = <<0, far>> -> Some(get_pixel_color(image, x, y + 1))
                          [] c = <<0, 0>> -> Some(get_pixel_color(image, x, y))
                          [] OTHER -> cleared[c]],
                !.stack = <<Quad(0, 0, far, far, sampling.anti_aliaser.level)>>,
                !.traced = <<>>, !.asked = {}, !.served = {},
                !.before = sampling.ray_counter]
    /\ UNCHANGED notSampling

\* the next of the four sub_renderer calls of the innermost invocation: the
\* cached color, else one more ray through the camera
SubRenderer ==
    /\ sampling.pc = "running"
    /\ sampling.stack # <<>>
    /\ LET q == Top(sampling.stack)
           c == corner(q, Len(q.colors) + 1)
           cached == sampling.sub_pixels[c]
           at == sample_at(sampling.anti_aliaser.size, sampling.x, sampling.y, c[1], c[2])
           color == IF cached # None THEN cached[1]
                    ELSE traced_color(sampling.image, at[1], at[2])
           asked == [sampling EXCEPT
                        !.stack = SetTop(@, [q EXCEPT !.colors = Append(@, color)]),
                        !.asked = @ \cup {c}]
       IN  /\ ~q.subdivided
           /\ Len(q.colors) < 4
           /\ sampling' =
                IF cached # None
                THEN [asked EXCEPT !.served = @ \cup {c}]
                ELSE [asked EXCEPT
                        !.ray_counter = @ + 1,
                        !.sub_pixels = [@ EXCEPT ![c] = Some(color)],
                        !.traced = Append(@, [sub |-> c, at |-> at])]
    /\ UNCHANGED notSampling

\* the innermost invocation has its four colors and returns their average
Average ==
    /\ sampling.pc = "running"
    /\ sampling.stack # <<>>
    /\ LET q == Top(sampling.stack)
       IN  /\ ~q.subdivided
           /\ Len(q.colors) = 4
           /\ \/ ~different(q.colors[1], q.colors[2], q.colors[3], q.colors[4],
                            sampling.anti_aliaser.threshold)
              \/ q.level <= 0
           /\ sampling' = returned(sampling,
                                   color_average(q.colors[1], q.colors[2],
                                                 q.colors[3], q.colors[4]))
    /\ UNCHANGED notSampling

\* the innermost invocation has its four colors and subdivides: the assert!
\* and the first recursive call
Subdivide ==
    /\ sampling.pc = "running"
    /\ sampling.stack # <<>>
    /\ LET q == Top(sampling.stack)
       IN  /\ ~q.subdivided
           /\ Len(q.colors) = 4
           /\ different(q.colors[1], q.colors[2], q.colors[3], q.colors[4],
                        sampling.anti_aliaser.threshold)
           /\ q.level > 0
           /\ sampling' =
                IF q.x2 - q.x1 >= 2 /\ q.y2 - q.y1 >= 2
                THEN [sampling EXCEPT
                        !.stack = Append(SetTop(@, [q EXCEPT !.subdivided = TRUE]),
                                         child_quad(q, 1))]
                ELSE [sampling EXCEPT !.pc = "panicked"]
    /\ UNCHANGED notSampling

\* the second, third and fourth recursive call
NextQuad ==
    /\ sampling.pc = "running"
    /\ sampling.stack # <<>>
    /\ LET q == Top(sampling.stack)
       IN  /\ q.subdivided
           /\ Len(q.children) \in 1 .. 3
           /\ sampling' = [sampling EXCEPT
                             !.stack = Append(@, child_quad(q, Len(q.children) + 1))]
    /\ UNCHANGED notSampling

\* the four child quads have returned: the average of their colors
Merge ==
    /\ sampling.pc = "running"
    /\ sampling.stack # <<>>
    /\ LET q == Top(sampling.stack)
       IN  /\ q.subdivided
           /\ Len(q.children) = 4
           /\ sampling' = returned(sampling,
                                   color_average(q.children[1], q.children[2],
                                                 q.children[3], q.children[4]))
    /\ UNCHANGED notSampling

\* anti_alias_line_vec copies the last pixel of the row and returns the line
CopyLastPixel ==
    /\ sampling.pc = "running"
    /\ sampling.stack = <<>>
    /\ sampling.x = sampling.width - 1
    /\ sampling' = [sampling EXCEPT
                      !.line = Append(@, get_pixel_color(sampling.image,
                                                         sampling.width - 1, sampling.y)),
                      !.pc = "done"]
    /\ UNCHANGED notSampling

\* the widest row anti-aliased
MaxSourceWidth == 3

\* a call anti_aliaser.anti_alias_line_vec(y, sub_pixels, ray_counter, source)
\* as create_anti_aliasing_thread makes it for a line of the source
InitSampling ==
    /\ tstack = new_with_identity
    /\ tfailed = FALSE
    /\ SceneIdle
    /\ GuiIdle
    /\ RayIdle
    /\ PixelIdle
    /\ CallIdle
    /\ \E threshold \in {R(0), Frac(1, 100), Frac(1, 10)}, level \in 0 .. MaxLevel,
          width \in 1 .. MaxSourceWidth, y \in 0 .. 1,
          image \in
            LET Grey(n, d) == Color(Frac(n, d), Frac(n, d), Frac(n, d), R(1))
            IN  { [kind |-> "flat", at |-> R(0), lo |-> Grey(1, 2), hi |-> Grey(1, 2)],
                  [kind |-> "vertical", at |-> Frac(1, 3), lo |-> Grey(0, 1), hi |-> Grey(1, 1)],
                  [kind |-> "vertical", at |-> Frac(3, 2), lo |-> Grey(2, 5), hi |-> Grey(3, 5)],
                  [kind |-> "horizontal", at |-> Frac(3, 4), lo |-> Grey(1, 1), hi |-> Grey(0, 1)],
                  [kind |-> "diagonal", at |-> Frac(5, 4), lo |-> Grey(0, 1), hi |-> Grey(1, 1)] } :
          sampling =
            LET anti_aliaser == AntiAliaser(Some(threshold), Some(level))
            IN  [pc |-> "running", anti_aliaser |-> anti_aliaser, image |-> image,
                 width |-> width, y |-> y, x |-> 0, line |-> <<>>,
                 sub_pixels |-> create_sub_pixel_buffer(anti_aliaser.size),
                 ray_counter |-> 0, stack |-> <<>>,
                 traced |-> <<>>, asked |-> {}, served |-> {}, before |-> 0]

NextSampling ==
    \/ BeginPixel
    \/ SubRenderer
    \/ Average
    \/ Subdivide
    \/ NextQuad
    \/ Merge
    \/ CopyLastPixel

SpecSampling == InitSampling /\ [][NextSampling]_vars

-----------------------------------------------------------------------------
(* ast_node.rs: the parameter list of an object constructor *)

\* a Value with its payload: type is number, string, vector, color, object,
\* texture or boolean
Value(type, v) == [type |-> type, v |-> v]

\* the payloads of the values of one type, in the order of the list
of_type(value_list, type) ==
    LET is(value) == value.type = type
        chosen == SelectSeq(value_list, is)
    IN  [i \in 1 .. Len(chosen) |-> chosen[i].v]

\* the same with every value pushed at the front of its queue
from_value_list_push_front(value_list) ==
    LET reversed(q) == [i \in 1 .. Len(q) |-> q[Len(q) + 1 - i]]
    IN  [numbers  |-> reversed(of_type(value_list, "number")),
         strings  |-> reversed(of_type(value_list, "string")),
         vectors  |-> reversed(of_type(value_list, "vector")),
         objects  |-> reversed(of_type(value_list, "object")),
         colors   |-> reversed(of_type(value_list, "color")),
         textures |-> reversed(of_type(value_list, "texture")),
         booleans |-> reversed(of_type(value_list, "boolean"))]

\* ValuesByType::from_value_list; a boolean makes it panic, which
\* booleans # <<>> records
from_value_list(value_list) ==
    [numbers  |-> of_type(value_list, "number"),
     strings  |-> of_type(value_list, "string"),
     vectors  |-> of_type(value_list, "vector"),
     objects  |-> of_type(value_list, "object"),
     colors   |-> of_type(value_list, "color"),
     textures |-> of_type(value_list, "texture"),
     booleans |-> of_type(value_list, "boolean")]

\* VecDeque::pop_front: the value taken and the queue left
pop_front(q) ==
    IF q = <<>> THEN [value |-> None, rest |-> q]
    ELSE [value |-> Some(Head(q)), rest |-> Tail(q)]

unwrap_or(option, default) == IF option = None THEN default ELSE option[1]

\* the outcome of a constructor that panicked
Panicked == [panicked |-> TRUE]

\* AstExpression::evaluate for Object { name, param_list }, given the values
\* the parameters evaluated to and the current transformation
construct(name, value_list, transformation) ==
    LET values == from_value_list(value_list)
        vector == pop_front(values.vectors)
        number == pop_front(values.numbers)
        string == pop_front(values.strings)
        operator == unwrap_or(string.value, "union")
        object1 == pop_front(values.objects)
        object2 == pop_front(object1.rest)
        is_csg == name = "csg"
        shape_kind ==
            CASE name = "sphere" ->
                    [kind |-> "Sphere",
                     center |-> unwrap_or(vector.value, Vector(R(0), R(0), R(0))),
                     radius |-> unwrap_or(number.value, R(1))]
              [] name = "cube" ->
                    [kind |-> "Cube",
                     center |-> unwrap_or(vector.value, Vector(R(0), R(0), R(0))),
                     length |-> unwrap_or(number.value, R(1))]
              [] name = "plane" ->
                    [kind |-> "Plane",
                     normal |-> unwrap_or(vector.value, Vector(R(0), R(1), R(0))),
                     distance |-> unwrap_or(number.value, R(1))]
              [] name = "csg" ->
                    [kind |-> "CSG", operator |-> operator,
                     a |-> object1.value, b |-> object2.value]
        \* the queues after the shape took its values
        vectors_left == IF is_csg THEN values.vectors ELSE vector.rest
        numbers_left == IF is_csg THEN values.numbers ELSE number.rest
        strings_left == IF is_csg THEN string.rest ELSE values.strings
        objects_left == IF is_csg THEN object2.rest ELSE values.objects
        texture == pop_front(values.textures)
        color == pop_front(values.colors)
        shape_material == IF texture.value # None
                    THEN [texture |-> texture.value[1]]
                    ELSE [color |-> unwrap_or(color.value, BLACK)]
        colors_left == IF texture.value # None THEN values.colors ELSE color.rest
        reflectivity == pop_front(numbers_left)
        transparency == pop_front(reflectivity.rest)
    IN  IF \/ values.booleans # <<>>
           \/ name \notin {"sphere", "cube", "plane", "csg"}
           \/ is_csg /\ operator \notin {"union", "intersection", "difference"}
           \/ is_csg /\ (object1.value = None \/ object2.value = None)
           \* values.assert_empty()
           \/ transparency.rest # <<>> \/ strings_left # <<>> \/ vectors_left # <<>>
           \/ objects_left # <<>> \/ colors_left # <<>> \/ texture.rest # <<>>
        THEN Panicked
        ELSE [material |-> shape_material,
              reflectivity |-> unwrap_or(reflectivity.value, R(0)),
              transparency |-> unwrap_or(transparency.value, R(0)),
              kind |-> shape_kind,
              transformation |-> transformation]

\* the longest parameter list tried
MaxParams == 3

\* a call evaluating name(param_list) under the identity transformation
Construct ==
    /\ call.fn = "construct"
    /\ ~call.done
    /\ call' = [call EXCEPT !.done = TRUE,
                            !.result = construct(call.name, call.value_list,
                                                 create_identity_matrix)]
    /\ UNCHANGED notCall

-----------------------------------------------------------------------------
(* math_shapes.rs, csg.rs: the transformation of a shape *)

\* MathShape::get_transformation
get_transformation(s) == s.transformation

\* MathShape::set_transformation: the shape afterwards.  MathCube hands the
\* transformation to its six planes and keeps its own field as it was.
set_transformation(s, transformation) ==
    LET set_plane(plane) ==
            [plane EXCEPT !.normal = transformed_normal(plane.normal, transformation),
                          !.transformation = transformation]
    IN  CASE s.shape = "sphere" -> [s EXCEPT !.transformation = transformation]
          [] s.shape = "plane" -> set_plane(s)
          [] s.shape = "cube" ->
                [s EXCEPT !.p1 = set_plane(s.p1), !.p2 = set_plane(s.p2),
                          !.p3 = set_plane(s.p3), !.p4 = set_plane(s.p4),
                          !.p5 = set_plane(s.p5), !.p6 = set_plane(s.p6)]
          [] s.shape = "csg" -> [s EXCEPT !.transformation = transformation]

\* Transformation::reverse_transform_ray
reverse_transform_ray_by(transformation, ray) ==
    Ray(reverse_transform_vector(transformation, ray.point),
        reverse_transform_direction_vector(transformation, ray.direction))

\* MathShape::reverse_transform_ray; the CSG overrides it and returns the ray
reverse_transform_ray(s, ray) ==
    IF s.shape = "csg" THEN ray
    ELSE reverse_transform_ray_by(get_transformation(s), ray)

\* a call shape.set_transformation(transformation), as
\* RayTracer::apply_current_transformation makes it
SetTransformation ==
    /\ call.fn = "set_transformation"
    /\ ~call.done
    /\ call' = [call EXCEPT !.done = TRUE,
                            !.result = set_transformation(call.shape, call.transformation)]
    /\ UNCHANGED notCall

-----------------------------------------------------------------------------
(* math_shapes.rs, raytracer.rs: a ray hitting a cube *)

\* MathPlane::is_transformed_point_on_surface
is_transformed_point_on_surface(plane, point) ==
    RLt(RAbs(RAdd(RAdd(RAdd(RMul(plane.a, point[1]), RMul(plane.b, point[2])),
                       RMul(plane.c, point[3])),
                  plane.d)),
        EPSILON)

\* the loop of MathCube::intersects from axis i on: the distances handed to
\* add_intersection, none after an early return
RECURSIVE cube_slabs(_, _, _, _, _)
cube_slabs(s, ray, i, t_near, t_far) ==
    IF i > 3 THEN <<t_near, t_far>>
    ELSE IF ray.direction[i] = R(0)
    THEN IF \/ RLt(ray.point[i], RSub(s.center[i], s.length))
            \/ RLt(RAdd(s.center[i], s.length), ray.point[i])
         THEN <<>>
         ELSE cube_slabs(s, ray, i + 1, t_near, t_far)
    ELSE LET a == RMul(RSub(RSub(s.center[i], s.length), ray.point[i]),
                       RInv(ray.direction[i]))
             b == RMul(RSub(RAdd(s.center[i], s.length), ray.point[i]),
                       RInv(ray.direction[i]))
             t1 == IF RLt(b, a) THEN b ELSE a
             t2 == IF RLt(b, a) THEN a ELSE b
             near == IF RLt(t_near, t1) THEN t1 ELSE t_near
             far == IF RLt(t2, t_far) THEN t2 ELSE t_far
         IN  IF RLt(far, near) \/ RLt(far, R(0)) THEN <<>>
             ELSE cube_slabs(s, ray, i + 1, near, far)

\* MathCube::intersects
cube_intersects(s, ray) == cube_slabs(s, ray, 1, MinusInfinity, PlusInfinity)

\* the six planes in the order MathCube::get_normal tries them
planes(s) == <<s.p1, s.p2, s.p3, s.p4, s.p5, s.p6>>

\* a call that returned value instead of panicking
Returned(value) == [panicked |-> FALSE, value |-> value]

\* MathCube::get_normal: the normal of the first plane the point lies on,
\* and the panic when it lies on none
get_normal(s, surface_point) ==
    LET point == reverse_transform_vector(s.transformation, surface_point)
        matching == {k \in 1 .. 6 : is_transformed_point_on_surface(planes(s)[k], point)}
    IN  IF matching = {} THEN Panicked
        ELSE Returned(planes(s)[CHOOSE k \in matching : \A j \in matching : k <= j].normal)

\* the start of RayTracer::get_ray_color for a scene of one cube:
\* RTObject::intersects, the nearest distance above EPSILON, the hit point
\* and its normal.  distances keeps everything the cube reported.
hit_normal(s, ray) ==
    LET distances == cube_intersects(s, reverse_transform_ray(s, ray))
        accepted == {k \in DOMAIN distances : RLt(EPSILON, distances[k])}
    IN  IF accepted = {}
        THEN [distances |-> distances, hit |-> None, normal |-> Returned(None)]
        ELSE LET nearest_distance ==
                     distances[CHOOSE k \in accepted :
                                  \A j \in accepted : RLe(distances[k], distances[j])]
                 point == VAdd(ray.point, VScale(ray.direction, nearest_distance))
             IN  [distances |-> distances, hit |-> Some(point),
                  normal |-> get_normal(s, point)]

\* a ray traced into a scene of one cube, up to the normal of the hit
HitNormal ==
    /\ call.fn = "hit_normal"
    /\ ~call.done
    /\ call' = [call EXCEPT !.done = TRUE, !.result = hit_normal(call.shape, call.ray)]
    /\ UNCHANGED notCall

-----------------------------------------------------------------------------
(* point_light.rs *)

PointLight(point, color, fade_distance) ==
    [point |-> point, color |-> color, fade_distance |-> fade_distance]

\* PointLight::intensity
intensity(light, distance) ==
    IF RLe(light.fade_distance, distance) THEN R(0)
    ELSE RMul(distance, RInv(light.fade_distance))

\* a call light.intensity(distance)
Intensity ==
    /\ call.fn = "intensity"
    /\ ~call.done
    /\ call' = [call EXCEPT !.done = TRUE,
                            !.result = intensity(call.light, call.distance)]
    /\ UNCHANGED notCall

-----------------------------------------------------------------------------
(* raytracer.rs: ambient and direct lighting of a surface point *)

\* Vector::length of a vector along one axis
length(v) == RAdd(RAdd(RAbs(v[1]), RAbs(v[2])), RAbs(v[3]))

\* the intensity get_ray_color derives from Vector::angle(a, b) for unit
\* vectors along the axes: the angle is 0, PI / 2 or PI
angle_intensity(a, b) == RAbs(VDot(a, b))

shadow_transparency_unbounded(scene, shadow_ray, distance_to_light, n) ==
    LET RECURSIVE product(_)
        product(i) ==
            IF i = 0 THEN R(1)
            ELSE LET shadowed == {d \in plane_intersects(scene[i], shadow_ray) :
                                    RLt(EPSILON, d)}
                 IN  IF shadowed = {} THEN product(i - 1)
                     ELSE RMul(product(i - 1), scene[i].transparency)
    IN  product(n)

\* the local `transparency` after the loop over the first n objects: the
\* product of the transparencies of the objects add_shadow_intersection
\* accepted (a plane reports at most one distance)
shadow_transparency(scene, shadow_ray, distance_to_light, n) ==
    LET RECURSIVE product(_)
        product(i) ==
            IF i = 0 THEN R(1)
            ELSE LET shadowed == {d \in plane_intersects(scene[i], shadow_ray) :
                                    RLt(EPSILON, d) /\ RLt(d, distance_to_light)}
                 IN  IF shadowed = {} THEN product(i - 1)
                     ELSE RMul(product(i - 1), scene[i].transparency)
    IN  product(n)

\* final_light after the loop over the first n lights, for the surface point
\* `point` with normal `normal` and material color c
RECURSIVE final_light(_, _, _, _, _, _)
final_light(scene, c, point, normal, point_lights, n) ==
    IF n = 0
    THEN color_mul(c, intensify(in_range(R(1), R(1), R(1)), Frac(6, 10)))
    ELSE LET light == point_lights[n]
             before == final_light(scene, c, point, normal, point_lights, n - 1)
             shadow_ray == Ray(point, normalized(VSub(light.point, point)))
             distance_to_light == length(VSub(light.point, point))
             transparency == shadow_transparency(scene, shadow_ray, distance_to_light,
                                                 Len(scene))
             light_color_ == intensify(intensify(light.color,
                                                angle_intensity(shadow_ray.direction, normal)),
                                      transparency)
         IN  IF transparency = R(0) THEN before
             ELSE color_add(before, color_mul(c, light_color_))

\* the most objects between the surface and the lights
MaxOccluders == 2

\* the lighting part of a get_ray_color call whose ray hit the first object of
\* the scene at the origin
FinalLight ==
    /\ call.fn = "final_light"
    /\ ~call.done
    /\ call' = [call EXCEPT
                   !.done = TRUE,
                   !.result = final_light(call.scene, call.scene[1].color, call.point,
                                          call.scene[1].p_n, call.point_lights,
                                          Len(call.point_lights))]
    /\ UNCHANGED notCall

-----------------------------------------------------------------------------
(* raytracer.rs: the refraction step of get_ray_color *)

\* the local v of get_refracted_ray_direction
snell_discriminant(incident, normal, r) ==
    LET cos_1 == VDot(VNeg(incident), normal)
    IN  RSub(R(1), RMul(RMul(r, r), RSub(R(1), RMul(cos_1, cos_1))))

\* RayTracer::get_refracted_ray_direction: what it leaves in
\* total_internal_reflection (the direction returned takes a square root and
\* is not modelled)
get_refracted_ray_direction(incident, normal, r) ==
    [total_internal_reflection |-> RLt(snell_discriminant(incident, normal, r), R(0))]

\* get_ray_color from the view angle to the reflectivity of the reflection
\* step.  refracted_ray_color is what the recursive call returns if it is made;
\* traced records whether it was made.
refraction(ray, normal, m, depth, final_light_, refracted_ray_color) ==
    LET \* angle >= PI / 2 exactly when the cosine is not positive
        inside_out == RLe(VDot(VNeg(ray.direction), normal), R(0))
        r == IF inside_out THEN Frac(145, 100) ELSE Frac(100, 145)
        normal_ == IF inside_out THEN VNeg(normal) ELSE normal
        enters == may_spawn(depth) /\ m.transparency # R(0)
        total_internal_reflection ==
            enters /\ get_refracted_ray_direction(ray.direction, normal_, r).total_internal_reflection
        traced == enters /\ ~total_internal_reflection
    IN  [inside_out |-> inside_out,
         total_internal_reflection |-> total_internal_reflection,
         traced |-> traced,
         final_light |-> IF traced
                         THEN color_add(intensify(final_light_, RSub(R(1), m.transparency)),
                                        intensify(refracted_ray_color, m.transparency))
                         ELSE final_light_,
         reflectivity |-> boosted_reflectivity(m, total_internal_reflection)]

\* the refraction step of one get_ray_color call
Refraction ==
    /\ call.fn = "refraction"
    /\ ~call.done
    /\ call' = [call EXCEPT
                   !.done = TRUE,
                   !.result = refraction(call.ray, call.normal, call.material, call.depth,
                                         call.final_light, call.refracted_ray_color)]
    /\ UNCHANGED notCall

-----------------------------------------------------------------------------
(* color.rs: calls of the color operations *)

\* a call Color::in_range(r, g, b)
InRange ==
    /\ call.fn = "in_range"
    /\ ~call.done
    /\ call' = [call EXCEPT !.done = TRUE, !.result = in_range(call.r, call.g, call.b)]
    /\ UNCHANGED notCall

\* a call color.intensify(intensity)
Intensify ==
    /\ call.fn = "intensify"
    /\ ~call.done
    /\ call' = [call EXCEPT !.done = TRUE, !.result = intensify(call.color, call.intensity)]
    /\ UNCHANGED notCall

\* color * rhs
MulColor ==
    /\ call.fn = "mul"
    /\ ~call.done
    /\ call' = [call EXCEPT !.done = TRUE, !.result = color_mul(call.color, call.rhs)]
    /\ UNCHANGED notCall

\* color + rhs
AddColor ==
    /\ call.fn = "add"
    /\ ~call.done
    /\ call' = [call EXCEPT !.done = TRUE, !.result = color_add(call.color, call.rhs)]
    /\ UNCHANGED notCall

-----------------------------------------------------------------------------
(* ast_node.rs, raytracer.rs: the set_camera statement *)

\* RayTracer::set_camera_from_vector: the eye point (center) of the
\* PerspectiveCamera installed
set_camera_from_vector(stack, center) ==
    transform_vector(get_current_transformation(stack), center)

\* AstStatement::execute for SetCamera { position }, position evaluated
execute_set_camera(stack, position) ==
    set_camera_from_vector(
        stack, transform_vector(get_current_transformation(stack), position))

\* a statement set_camera(position) executed while the RayTracer's
\* transformation stack is call.stack
SetCamera ==
    /\ call.fn = "set_camera"
    /\ ~call.done
    /\ call' = [call EXCEPT !.done = TRUE,
                            !.result = execute_set_camera(call.stack, call.position)]
    /\ UNCHANGED notCall

-----------------------------------------------------------------------------
(* Single calls into the raytracer library, for any arguments *)

\* the scene's csg(cube(c, 10), sphere(c, 4), difference)
CubeMinusSphere ==
    LET c == Vector(R(0), R(0), R(0))
        t == create_identity_matrix
    IN  CSG(t, MathCube(t, c, R(10)), MathSphere(t, c, R(4)), "Difference")

\* the shapes tried: the sphere and the cube of the scene
\* csg(cube(c, 10), sphere(c, 4), difference), a sphere moved off the centre
\* and a plane, and the CSGs over them nested up to the given depth
RECURSIVE MathShapes(_)
MathShapes(nest) ==
    IF nest = 0
    THEN LET c == Vector(R(0), R(0), R(0))
             t == create_identity_matrix
         IN  { MathSphere(t, c, R(4)), MathCube(t, c, R(10)),
               MathSphere(create_translation_matrix(R(3), R(0), R(0)), c, R(4)),
               MathPlane(t, R(0), R(1), R(0), R(0)) }
    ELSE LET operands == MathShapes(nest - 1)
         IN  operands \cup { CSG(create_identity_matrix, a, b, op) :
                                 a \in operands, b \in operands, op \in Operator }

\* the calls tried, each with its arguments and no result yet
LibraryCalls ==
    LET Points ==
            { Vector(R(x), R(y), R(0)) :
                x \in {-6, -4, 0, 3, 5, 6}, y \in {0, 3} }
        Grey(n, d) == Color(Frac(n, d), Frac(n, d), Frac(n, d), R(1))
        \* colors of the base image: three close greys and a transparent one
        Palette == { Grey(2, 5), Grey(1, 2), Grey(3, 5),
                     Color(Frac(1, 2), Frac(1, 2), Frac(1, 2), R(0)) }
        Thresholds == {R(0), Frac(1, 100), Frac(1, 10)}
        \* scenes under the pixel: flat, or an edge across the sub-pixel grid
        Oracles ==
            { [kind |-> "flat", at |-> 0, lo |-> Grey(1, 2), hi |-> Grey(1, 2)],
              [kind |-> "vertical", at |-> 1, lo |-> Grey(2, 5), hi |-> Grey(3, 5)],
              [kind |-> "horizontal", at |-> 2, lo |-> Grey(3, 5), hi |-> Grey(2, 5)] }
        \* the values a parameter can evaluate to
        Params ==
            { Value("number", R(2)), Value("number", R(3)),
              Value("vector", Vector(R(1), R(2), R(3))),
              Value("color", Color(R(1), R(0), R(0), R(1))),
              Value("string", "difference"),
              Value("object", construct("sphere", <<>>, create_identity_matrix)),
              Value("object", construct("cube", <<>>, create_identity_matrix)),
              Value("texture", "texture.png") }
        Distances == {R(0), Frac(1, 2), R(1), R(2), R(3), R(4), R(5)}
        \* f64 arguments of in_range: below, inside and above [0, 1], and the
        \* values that are no numbers
        Channels == {R(-1), R(0), Frac(1, 2), R(1), R(2), NaN, PlusInfinity, MinusInfinity}
        \* colors as Color::new makes them, channels out of range included
        Colors == { Color(Frac(1, 2), Frac(1, 4), Frac(3, 4), Frac(1, 2)),
                    Color(R(2), R(-1), Frac(1, 2), R(0)),
                    Color(R(1), R(1), R(1), R(1)),
                    Color(R(0), Frac(1, 2), R(1), Frac(3, 4)) }
        \* the surface hit: the plane y = 0
        Floors == { Plane(R(0), R(1), R(0), R(0), color, R(0), R(0)) :
                       color \in { Color(R(1), Frac(1, 2), Frac(1, 2), R(1)),
                                   Color(Frac(1, 2), R(1), R(0), R(1)) } }
        \* planes y = 2, y = 5 and y = 9 above it: opaque, half and fully transparent
        Occluders == { Plane(R(0), R(1), R(0), R(-y), BLACK, R(0), transparency) :
                          y \in {2, 5, 9}, transparency \in {R(0), Frac(1, 2), R(1)} }
        \* lights above the point at distances 4 and 8, and one level with it
        LightAt(x, y) == PointLight(Vector(R(x), R(y), R(0)),
                                    Color(R(1), R(1), Frac(1, 2), R(1)), R(100))
        LightLists == { <<LightAt(0, 4)>>, <<LightAt(0, 8)>>,
                        <<LightAt(0, 4), LightAt(0, 8)>>, <<LightAt(3, 0), LightAt(0, 4)>> }
        \* unit directions leaving and entering the surface y = 0, steep and shallow
        \* rays towards the cube along z, x and y, one level with the plane
        \* y = 5/2, one passing beside the cube, one starting inside it and
        \* a diagonal one
        CubeRays ==
            { Ray(Vector(R(0), R(0), R(-100)), Vector(R(0), R(0), R(1))),
              Ray(Vector(R(0), R(0), R(100)), Vector(R(0), R(0), R(-1))),
              Ray(Vector(R(-100), R(0), R(0)), Vector(R(1), R(0), R(0))),
              Ray(Vector(R(0), R(100), R(0)), Vector(R(0), R(-1), R(0))),
              Ray(Vector(R(0), Frac(5, 2), R(-100)), Vector(R(0), R(0), R(1))),
              Ray(Vector(R(50), R(0), R(-100)), Vector(R(0), R(0), R(1))),
              Ray(Vector(R(0), R(0), R(0)), Vector(R(0), R(0), R(1))),
              Ray(Vector(R(-100), R(0), R(-100)), Vector(R(1), R(0), R(1))) }
        Directions == { Vector(Frac(p[1], 5), Frac(p[2], 5), R(0)) :
                           p \in { <<0, 5>>, <<3, 4>>, <<4, 3>>,
                                    <<0, -5>>, <<3, -4>>, <<4, -3>> } }
    IN
    { [fn |-> "is_inside", done |-> FALSE, shape |-> shape, point |-> point,
       result |-> FALSE] : shape \in MathShapes(MaxCsgNest), point \in Points }
    \cup
    { [fn |-> "get_anti_aliased_pixel", done |-> FALSE, threshold |-> threshold,
       level |-> level, seeds |-> seeds, oracle |-> oracle, ray_counter |-> 0,
       result |-> None] :
          threshold \in Thresholds, level \in 0 .. MaxLevel,
          seeds \in Palette \X Palette \X Palette \X Palette, oracle \in Oracles }
    \cup
    { [fn |-> "AntiAliaser::new", done |-> FALSE, threshold |-> threshold,
       level |-> level, result |-> None] :
          threshold \in {Some(t) : t \in Thresholds} \cup {None},
          level \in {Some(l) : l \in 0 .. MaxLevel} \cup {None} }
    \cup
    { [fn |-> "construct", done |-> FALSE, name |-> name, value_list |-> value_list,
       result |-> None] :
          name \in {"sphere", "cube", "plane", "csg"},
          value_list \in UNION { [1 .. n -> Params] : n \in 0 .. MaxParams } }
    \cup
    { [fn |-> "final_light", done |-> FALSE, scene |-> <<floor>> \o occluders,
       point |-> Vector(R(0), R(0), R(0)), point_lights |-> point_lights,
       result |-> BLACK] :
          floor \in Floors,
          occluders \in UNION { [1 .. n -> Occluders] : n \in 0 .. MaxOccluders },
          point_lights \in LightLists }
    \cup
    { [fn |-> "refraction", done |-> FALSE,
       ray |-> Ray(Vector(R(0), R(0), R(0)), direction),
       normal |-> Vector(R(0), R(1), R(0)), material |-> m, depth |-> depth,
       final_light |-> final_light_, refracted_ray_color |-> refracted_ray_color,
       result |-> None] :
          direction \in Directions, m \in Materials,
          depth \in {0, max_depth - 1, max_depth},
          final_light_ \in {Grey(1, 2), Grey(1, 1)},
          refracted_ray_color \in {BLACK, Grey(3, 5)} }
    \cup
    { [fn |-> "intensity", done |-> FALSE,
       light |-> PointLight(Vector(R(0), R(0), R(0)), BLACK, fade_distance),
       distance |-> distance, result |-> R(0)] :
          fade_distance \in {R(1), R(2), R(4)}, distance \in Distances }
    \cup
    { [fn |-> "in_range", done |-> FALSE, r |-> r, g |-> g, b |-> b, result |-> BLACK] :
          r \in Channels, g \in Channels, b \in Channels }
    \cup
    { [fn |-> "intensify", done |-> FALSE, color |-> color, intensity |-> k,
       result |-> BLACK] : color \in Colors, k \in {R(-1), R(0), Frac(1, 2), R(3)} }
    \cup
    { [fn |-> op, done |-> FALSE, color |-> color, rhs |-> rhs, result |-> BLACK] :
          op \in {"mul", "add"}, color \in Colors, rhs \in Colors }
    \cup
    { [fn |-> "set_camera", done |-> FALSE, stack |-> stack, position |-> position,
       result |-> position] :
          stack \in {new_with_identity}
                      \cup {push_transformation(new_with_identity, t) : t \in Transformations},
          position \in TestVectors }
    \cup
    { [fn |-> "set_transformation", done |-> FALSE, shape |-> shape,
       transformation |-> transformation, result |-> shape] :
          shape \in MathShapes(0) \cup {CubeMinusSphere},
          transformation \in Transformations }
    \cup
    { [fn |-> "hit_normal", done |-> FALSE, shape |-> MathCube(t, center, edge),
       ray |-> ray, result |-> None] :
          t \in {create_identity_matrix, create_translation_matrix(R(1), R(0), R(0))},
          center \in {Vector(R(0), R(0), R(0)), Vector(R(1), R(2), R(3))},
          edge \in {R(4), R(10)},
          ray \in CubeRays }

InitLibrary ==
    /\ tstack = new_with_identity
    /\ tfailed = FALSE
    /\ SceneIdle
    /\ GuiIdle
    /\ RayIdle
    /\ PixelIdle
    /\ call \in LibraryCalls
    /\ SamplingIdle

NextLibrary ==
    \/ IsInside
    \/ GetAntiAliasedPixel
    \/ NewAntiAliaser
    \/ Construct
    \/ FinalLight
    \/ Refraction
    \/ Intensity
    \/ InRange
    \/ Intensify
    \/ MulColor
    \/ AddColor
    \/ SetCamera
    \/ SetTransformation
    \/ HitNormal

SpecLibrary == InitLibrary /\ [][NextLibrary]_vars

-----------------------------------------------------------------------------
(* Constructive solid geometry *)

\* C11: a CSG contains a point exactly when its operands' is_inside answers,
\* combined by or (Union), and (Intersection) or and-not (Difference), say so;
\* the cube of side 10 minus the sphere of radius 4 excludes the points within
\* the sphere and contains the points of the cube outside the sphere.
C11_CsgMembership ==
    (call.fn = "is_inside" /\ call.done /\ call.shape.shape = "csg") =>
        LET a == is_inside(call.shape.a_obj, call.point)
            b == is_inside(call.shape.b_obj, call.point)
            p == call.point
        IN  /\ call.shape.operator = "Union" => (call.result <=> (a \/ b))
            /\ call.shape.operator = "Intersection" => (call.result <=> (a /\ b))
            /\ call.shape.operator = "Difference" => (call.result <=> (a /\ ~b))
            /\ call.shape = CubeMinusSphere =>
                  /\ RLe(VDot(p, p), R(16)) => ~call.result
                  /\ ((\A i \in 1 .. 3 : RLe(RAbs(p[i]), R(5))) /\ RLt(R(16), VDot(p, p)))
                        => call.result

\* a point of the cube outside the sphere was found inside the difference
C11_CubePointKept ==
    /\ call.fn = "is_inside" /\ call.done
    /\ call.shape = CubeMinusSphere
    /\ call.point = Vector(R(3), R(3), R(0))
    /\ call.result

-----------------------------------------------------------------------------
(* The anti-aliaser *)

\* C12: a pixel whose four seeding pixels have one color c anti-aliases to c
\* without subdividing and without casting a ray, for every threshold >= 0
\* and every level.
C12_UniformBlockUntouched ==
    (/\ call.fn = "get_anti_aliased_pixel" /\ call.done
     /\ \A i \in 1 .. 4 : call.seeds[i] = call.seeds[1])
        => /\ call.result.color = call.seeds[1]
           /\ ~call.result.subdivided
           /\ call.result.ray_counter = call.ray_counter

\* a uniform block over a scene that has an edge inside the pixel, refined
\* with threshold 0 and a positive level
C12_UniformOverEdge ==
    /\ call.fn = "get_anti_aliased_pixel" /\ call.done
    /\ \A i \in 1 .. 4 : call.seeds[i] = Color(Frac(1, 2), Frac(1, 2), Frac(1, 2), R(1))
    /\ call.oracle.kind = "vertical"
    /\ call.threshold = R(0)
    /\ call.level > 0
    /\ call.result.color = call.seeds[1]

\* C17: AntiAliaser::new without a threshold and a level uses threshold 0.01
\* and level 3, a 9 x 9 sub-pixel grid.
C17_Defaults ==
    (/\ call.fn = "AntiAliaser::new" /\ call.done
     /\ call.threshold = None /\ call.level = None)
        => call.result = [threshold |-> Frac(1, 100), level |-> 3, size |-> 9]

different_any_pair(color1, color2, color3, color4, threshold) ==
    \/ pixels_are_different(color1, color2, threshold)
    \/ pixels_are_different(color1, color3, threshold)
    \/ pixels_are_different(color1, color4, threshold)
    \/ pixels_are_different(color2, color3, threshold)
    \/ pixels_are_different(color2, color4, threshold)
    \/ pixels_are_different(color3, color4, threshold)

\* C20: with level > 0 the quad is subdivided exactly when one of the six
\* pairs among its four corner colors differs beyond the threshold, and
\* otherwise the average of the four corners is returned.
C20_SubdividedIffAnyPairDiffers ==
    (call.fn = "get_anti_aliased_pixel" /\ call.done /\ call.level > 0) =>
        LET c == call.seeds
        IN  /\ call.result.subdivided
                  <=> different_any_pair(c[1], c[2], c[3], c[4], call.threshold)
            /\ ~call.result.subdivided
                  => call.result.color = color_average(c[1], c[2], c[3], c[4])

-----------------------------------------------------------------------------
(* The object constructors *)

\* the lists that hold the values of value_list in another order
Reorderings(value_list) ==
    LET n == Len(value_list)
        bijections == {f \in [1 .. n -> 1 .. n] : \A i, j \in 1 .. n : f[i] = f[j] => i = j}
    IN  {[i \in 1 .. n |-> value_list[f[i]]] : f \in bijections}

\* C13: a constructor's object is the same for every reordering of its
\* argument list that keeps the arguments of each type in their order; the
\* first vector is the sphere's center (default origin), the first number its
\* radius (default 1), the next numbers the reflectivity and the transparency
\* (default 0).
C13_OrderWithinTypeOnly ==
    (call.fn = "construct" /\ call.done) =>
        /\ \A other \in Reorderings(call.value_list) :
              from_value_list(other) = from_value_list(call.value_list)
                  => construct(call.name, other, create_identity_matrix) = call.result
        /\ (call.name = "sphere" /\ call.result # Panicked) =>
              LET vectors == of_type(call.value_list, "vector")
                  numbers == of_type(call.value_list, "number")
                  nth(q, i, default) == IF Len(q) >= i THEN q[i] ELSE default
              IN  /\ call.result.kind.center = nth(vectors, 1, Vector(R(0), R(0), R(0)))
                  /\ call.result.kind.radius = nth(numbers, 1, R(1))
                  /\ call.result.reflectivity = nth(numbers, 2, R(0))
                  /\ call.result.transparency = nth(numbers, 3, R(0))

\* sphere(2, <1,2,3>, 3): the vector between the numbers, radius 2 and
\* reflectivity 3
C13_SphereVectorBetweenNumbers ==
    /\ call.fn = "construct" /\ call.done
    /\ call.name = "sphere"
    /\ call.value_list = << Value("number", R(2)), Value("vector", Vector(R(1), R(2), R(3))),
                            Value("number", R(3)) >>
    /\ call.result # Panicked
    /\ call.result.kind.radius = R(2)
    /\ call.result.reflectivity = R(3)

-----------------------------------------------------------------------------
(* Colors and lights *)

\* 0.0 <= x && x <= 1.0 on f64
InUnitInterval(x) == x # NaN /\ RLe(R(0), x) /\ RLe(x, R(1))

\* C16: for all inputs the channels of Color::in_range(r, g, b) lie in
\* [0, 1], and so do the channels of every result of intensify, Color * Color
\* and Color + Color.
C16_ChannelsInUnitInterval ==
    (call.fn \in {"in_range", "intensify", "mul", "add"} /\ call.done) =>
        /\ InUnitInterval(call.result.r)
        /\ InUnitInterval(call.result.g)
        /\ InUnitInterval(call.result.b)

\* C18: PointLight::intensity is zero at and beyond fade_distance, does not
\* increase with the distance and is largest at distance 0.
C18_IntensityFadesWithDistance ==
    (call.fn = "intensity" /\ call.done) =>
        /\ RLe(call.light.fade_distance, call.distance) => call.result = R(0)
        /\ \A nearer \in {R(0), Frac(1, 2), R(1), R(2), R(3)} :
              RLe(nearer, call.distance)
                  => RLe(call.result, intensity(call.light, nearer))

-----------------------------------------------------------------------------
(* Shadows *)

\* the sequence without its i-th element
Without(seq, i) == SubSeq(seq, 1, i - 1) \o SubSeq(seq, i + 1, Len(seq))

\* the distances at which the object meets the shadow ray towards the light
ShadowHits(object, point, light) ==
    {d \in plane_intersects(object, Ray(point, normalized(VSub(light.point, point)))) :
        RLt(EPSILON, d)}

\* C14: a light with an opaque object between the surface point and itself
\* adds nothing to the point's color, the ambient term staying as it is;
\* objects the shadow ray meets only beyond the light take nothing from the
\* light's contribution.
C14_OpaqueOccluderBlocksLight ==
    (call.fn = "final_light" /\ call.done) =>
        LET lit(scene, point_lights) ==
                final_light(scene, call.scene[1].color, call.point, call.scene[1].p_n,
                            point_lights, Len(point_lights))
            distance(i) == length(VSub(call.point_lights[i].point, call.point))
            occluded(i) ==
                \E o \in 2 .. Len(call.scene) :
                    /\ call.scene[o].transparency = R(0)
                    /\ \E d \in ShadowHits(call.scene[o], call.point, call.point_lights[i]) :
                          RLt(d, distance(i))
            beyond(o) ==
                \A i \in 1 .. Len(call.point_lights) :
                    \A d \in ShadowHits(call.scene[o], call.point, call.point_lights[i]) :
                        RLe(distance(i), d)
        IN  /\ \A i \in 1 .. Len(call.point_lights) :
                  occluded(i) => call.result = lit(call.scene, Without(call.point_lights, i))
            /\ \A o \in 2 .. Len(call.scene) :
                  beyond(o) => call.result = lit(Without(call.scene, o), call.point_lights)

\* an opaque plane at y = 5 with lights at y = 4 and y = 8: the far light is
\* cut off, the near one lights the point
C14_FarLightCutOff ==
    /\ call.fn = "final_light" /\ call.done
    /\ Len(call.scene) = 2
    /\ call.scene[2].transparency = R(0)
    /\ call.scene[2].d = R(-5)
    /\ Len(call.point_lights) = 2
    /\ call.point_lights[1].point = Vector(R(0), R(4), R(0))
    /\ call.point_lights[2].point = Vector(R(0), R(8), R(0))
    /\ call.result # final_light(call.scene, call.scene[1].color, call.point,
                                 call.scene[1].p_n, call.point_lights, 0)

-----------------------------------------------------------------------------
(* Total internal reflection *)

\* C15: a ray at a depth below max_depth that hits a material of positive
\* transparency with a negative Snell discriminant sets
\* total_internal_reflection, traces no refraction ray and blends no refracted
\* color in, and is reflected with the reflectivity raised by the
\* transparency: reflectivity + (1 - reflectivity) * transparency.
C15_TotalInternalReflection ==
    (/\ call.fn = "refraction" /\ call.done
     /\ call.depth < max_depth
     /\ RLt(R(0), call.material.transparency)
     /\ LET inside_out == RLe(VDot(VNeg(call.ray.direction), call.normal), R(0))
        IN  RLt(snell_discriminant(call.ray.direction,
                                   IF inside_out THEN VNeg(call.normal) ELSE call.normal,
                                   IF inside_out THEN Frac(145, 100) ELSE Frac(100, 145)),
                R(0)))
        => /\ call.result.total_internal_reflection
           /\ ~call.result.traced
           /\ call.result.final_light = call.final_light
           /\ call.result.reflectivity =
                 RAdd(call.material.reflectivity,
                      RMul(RSub(R(1), call.material.reflectivity),
                           call.material.transparency))

\* a shallow ray leaving a half-transparent, half-reflective material is
\* reflected with reflectivity 3/4
C15_ShallowExit ==
    /\ call.fn = "refraction" /\ call.done
    /\ call.depth < max_depth
    /\ call.ray.direction = Vector(Frac(4, 5), Frac(3, 5), R(0))
    /\ call.material = [transparency |-> Frac(1, 2), reflectivity |-> Frac(1, 2)]
    /\ call.result.total_internal_reflection
    /\ call.result.reflectivity = Frac(3, 4)

-----------------------------------------------------------------------------
(* Color arithmetic, channel by channel *)

\* C30: each of r, g and b of Color * Color and of Color + Color is the clamp
\* to [0, 1] of the product (the sum) of the operands' same channel, so the
\* two operators are commutative.
C30_ChannelWiseAndCommutative ==
    (call.fn \in {"mul", "add"} /\ call.done) =>
        LET op(x, y) == IF call.fn = "mul" THEN RMul(x, y) ELSE RAdd(x, y)
            swapped == IF call.fn = "mul" THEN color_mul(call.rhs, call.color)
                       ELSE color_add(call.rhs, call.color)
        IN  /\ call.result.r = in_limit(op(call.color.r, call.rhs.r), R(0), R(1))
            /\ call.result.g = in_limit(op(call.color.g, call.rhs.g), R(0), R(1))
            /\ call.result.b = in_limit(op(call.color.b, call.rhs.b), R(0), R(1))
            /\ call.result = swapped

-----------------------------------------------------------------------------
(* The camera of a scene *)

\* C26: set_camera(p) executed while the top of the transformation stack is
\* T installs a camera whose eye point is T applied to p exactly once.
C26_EyeTransformedOnce ==
    (call.fn = "set_camera" /\ call.done) =>
        call.result = transform_vector(get_current_transformation(call.stack),
                                       call.position)

-----------------------------------------------------------------------------
(* Shapes under a transformation *)

\* C25: after set_transformation(t) the shape's get_transformation() returns
\* t, and its ray inverse-transform, its containment test and its normals
\* use t.
C25_TransformationSetIsUsed ==
    (call.fn = "set_transformation" /\ call.done) =>
        LET t == call.transformation
            s == call.result
            rays == { Ray(Vector(R(1), R(2), R(3)), Vector(R(0), R(0), R(1))),
                      Ray(Vector(R(0), R(0), R(-100)), Vector(R(1), R(0), R(0))) }
            points == { Vector(R(x), R(0), R(0)) : x \in {-6, 0, 5, 6, 8} }
            untransformed ==
                [call.shape EXCEPT !.transformation = create_identity_matrix]
            axis(plane) == normalized(Vector(plane.a, plane.b, plane.c))
        IN  /\ get_transformation(s) = t
            /\ \A ray \in rays :
                  reverse_transform_ray(s, ray) = reverse_transform_ray_by(t, ray)
            /\ s.shape \in {"sphere", "cube"} =>
                  \A point \in points :
                      is_inside(s, point)
                          = is_inside(untransformed, reverse_transform_vector(t, point))
            /\ s.shape = "plane" => s.normal = transformed_normal(axis(s), t)
            /\ s.shape = "cube" =>
                  \A k \in 1 .. 6 :
                      planes(s)[k].normal = transformed_normal(axis(planes(s)[k]), t)

-----------------------------------------------------------------------------
(* The normal of a cube *)

\* C22: every hit point ray.point + ray.direction * d, for a distance d that
\* MathCube::intersects reports, lies on one of the cube's six planes, so
\* that get_normal returns a normal and rendering never reaches its panic.
C22_HitPointOnSomePlane ==
    (call.fn = "hit_normal" /\ call.done) =>
        /\ call.result.normal # Panicked
        /\ \A k \in DOMAIN call.result.distances :
              get_normal(call.shape,
                         VAdd(call.ray.point,
                              VScale(call.ray.direction, call.result.distances[k])))
                  # Panicked

-----------------------------------------------------------------------------
(* The rays an anti-aliased pixel costs *)

\* the sub-pixels get_pixel was called for while the current pixel is refined
TracedCoordinates == {sampling.traced[i].sub : i \in DOMAIN sampling.traced}

\* C21: within one get_anti_aliased_pixel call every grid coordinate is
\* ray-traced at most once and the seeded corners never; ray_counter grows by
\* the number of distinct non-corner coordinates sampled, at most
\* size * size - 4; nothing cached for another pixel is left in the buffer.
C21_EachCoordinateTracedOnce ==
    sampling.pc # "idle" =>
        LET size == sampling.anti_aliaser.size
            corners == seeded_corners(size)
        IN  /\ \A i, j \in DOMAIN sampling.traced :
                  sampling.traced[i].sub = sampling.traced[j].sub => i = j
            /\ TracedCoordinates \cap corners = {}
            /\ sampling.ray_counter - sampling.before = Len(sampling.traced)
            /\ Len(sampling.traced) = Cardinality(sampling.asked \ corners)
            /\ Len(sampling.traced) <= size * size - 4
            /\ sampling.stack # <<>> =>
                  \A c \in DOMAIN sampling.sub_pixels :
                      sampling.sub_pixels[c] # None => c \in corners \cup TracedCoordinates

\* the second pixel of a line is being refined, rays were traced for it, and
\* a coordinate they were traced for was asked again and served from the cache
C21_ServedFromCache ==
    /\ sampling.pc = "running"
    /\ sampling.x = 1
    /\ sampling.stack # <<>>
    /\ sampling.served \cap TracedCoordinates # {}
    /\ sampling.ray_counter > sampling.before
    /\ sampling.before > 0

\* C27: the sub-sample at grid coordinate (sx, sy) of pixel (x, y) is traced
\* at image coordinate (x + sx / (size - 1), y + sy / (size - 1)).
C27_SampleSpansThePixel ==
    sampling.pc # "idle" =>
        \A i \in DOMAIN sampling.traced :
            LET sub == sampling.traced[i].sub
                last_index == sampling.anti_aliaser.size - 1
            IN  sampling.traced[i].at =
                    <<RAdd(R(sampling.x), Frac(sub[1], last_index)),
                      RAdd(R(sampling.y), Frac(sub[2], last_index))>>

\* C28: with level >= 0 every coordinate sampled lies in [0, size - 1]^2,
\* the assertion x2 - x1 >= 2 && y2 - y1 >= 2 holds whenever a quad is
\* subdivided, and at most `level` subdivisions are nested.
C28_RecursionStaysInGrid ==
    sampling.pc # "idle" =>
        LET size == sampling.anti_aliaser.size
            level == sampling.anti_aliaser.level
        IN  /\ sampling.pc # "panicked"
            /\ sampling.asked \subseteq (0 .. size - 1) \X (0 .. size - 1)
            /\ Len(sampling.stack) <= level + 1
            /\ \A k \in DOMAIN sampling.stack :
                  LET q == sampling.stack[k]
                  IN  /\ q.level = level - (k - 1)
                      /\ q.level >= 0
                      /\ 0 <= q.x1 /\ q.x1 < q.x2 /\ q.x2 <= size - 1
                      /\ 0 <= q.y1 /\ q.y1 < q.y2 /\ q.y2 <= size - 1
                      /\ q.subdivided => q.x2 - q.x1 >= 2 /\ q.y2 - q.y1 >= 2

\* the deepest invocation the level allows has asked for its four colors,
\* under two nested subdivisions
C28_DeepestQuad ==
    /\ sampling.pc = "running"
    /\ sampling.anti_aliaser.level >= 2
    /\ Len(sampling.stack) = sampling.anti_aliaser.level + 1
    /\ Len(Top(sampling.stack).colors) = 4
    /\ Top(sampling.stack).x2 - Top(sampling.stack).x1 = 1

-----------------------------------------------------------------------------
(* The debugger callback of get_ray_color *)

\* an invocation that has reached its return has called the callback once,
\* with its own depth and ray type and with what it found; one that has not
\* has not called it
CalledOnceAtReturn ==
    \A i \in 1 .. Len(rstack) :
        LET f == rstack[i]
        IN  IF f.pc = "return"
            THEN f.debugged = <<RayInfo(f.depth, f.hit, f.ray_type)>>
            ELSE f.debugged = <<>>

\* the invocations under way are left with the one that returns in the
\* state it returns in: nothing is called for it afterwards
ReturnsAfterOneCall ==
    Len(rstack') < Len(rstack) =>
        /\ Top(rstack).pc = "return"
        /\ Len(Top(rstack).debugged) = 1

\* C23: with a debugger callback supplied, every get_ray_color invocation
\* calls it exactly once, on the no-hit path without an object and on the
\* hit path with the object hit, with the invocation's depth and ray type,
\* so that one get_pixel makes as many calls as it traces ray segments.
C23_OneCallPerInvocation ==
    /\ [](rstack # <<>> /\ rstack[1].ray_debugger_callback => CalledOnceAtReturn)
    /\ [][rstack # <<>> /\ rstack[1].ray_debugger_callback
            => ReturnsAfterOneCall]_vars

\* a reflected ray at depth 2 has missed every object and called the
\* callback, while its callers, which both hit an object, have not yet
C23_MissAfterTwoHits ==
    /\ Len(rstack) = 3
    /\ rstack[1].ray_debugger_callback
    /\ rstack[3].ray_type = "ReflectionRay"
    /\ rstack[3].pc = "return"
    /\ rstack[3].debugged = <<RayInfo(2, FALSE, "ReflectionRay")>>
    /\ rstack[1].hit /\ rstack[2].hit
    /\ rstack[1].debugged = <<>> /\ rstack[2].debugged = <<>>

-----------------------------------------------------------------------------
(* The image an anti-aliasing job starts from *)

\* the jobs a step has handed to the thread pool
Dispatched == {i \in 1 .. Len(jobs') : i > Len(jobs)}

\* the main buffer of frame f holds a line of the frame's current scene in
\* every row, and nothing that would render the main view of f is under way
FullyRendered(f) ==
    /\ \A row \in DOMAIN frame_contexts[f].MainView :
          LET held == frame_contexts[f].MainView[row]
          IN  held.c = "line" /\ held.render = frame_contexts[f].render
    /\ \A i \in 1 .. Len(jobs) :
          ~(jobs[i].frame = f /\ jobs[i].area = "MainView" /\ ~jobs[i].anti_aliased)
    /\ \A i \in 1 .. Len(channel) :
          ~(channel[i].frame = f /\ channel[i].area = "MainView"
            /\ ~channel[i].anti_aliased)

\* C24: whenever an anti-aliasing job is dispatched for a frame, the main
\* buffer it snapshots is fully rendered: every scanline holds its rendered
\* line for the current scene and no render job for the frame is in flight.
C24_AntiAliasesRenderedImage ==
    [][\A i \in Dispatched :
          jobs'[i].anti_aliased => FullyRendered(jobs'[i].frame)]_vars

-----------------------------------------------------------------------------
(* The main buffer after an anti-aliasing pass *)

\* the job has sent its last line and the handler has applied it
PassComplete == jobs = <<>> /\ channel = <<>>

\* C29: when all the lines of one anti-aliasing job have been applied, in
\* the order sent, to a fully rendered main buffer with no other job in
\* flight, every scanline of the main buffer holds the anti-aliased line
\* sent for it or the rendered line it held before; none is left white.
C29_NoRowLeftWhite ==
    PassComplete =>
        \A f \in FrameNumbers :
            \A row \in DOMAIN frame_contexts[f].MainView :
                frame_contexts[f].MainView[row] \in
                    {Line(frame_contexts[f].render, TRUE),
                     Line(frame_contexts[f].render, FALSE)}

=============================================================================
